---------------------------- MODULE Spec2Model ----------------------------
(***************************************************************************)
(* State-machine model of the battle page of LakeshoreLegends               *)
(* (src/src/pages/BattlePage.tsx): the HP snapshot poller, the pending      *)
(* ledger (pendingRef), the display merge (getDisplayHp), the submission    *)
(* pipeline (onSubmit) and the Battle_Control session arbitration.          *)
(*                                                                          *)
(* A character is modelled as a token (a short string naming it) and a      *)
(* string as a sequence of tokens, so that the canonicalizer works on the   *)
(* characters as the code's regular expressions do.                         *)
(***************************************************************************)
EXTENDS Integers, Sequences, FiniteSets, TLC

----------------------------------------------------------------------------
(* Program constants *)

PENDING_TTL_MS == 90000

DEFAULT_HP == 20

(* The damage and heal buttons offer -5..-1 and 1..5; the model presses     *)
(* these of them.                                                           *)
DeltaChoices == {-5, 2}

HP_POLL_MS == 15000

HP_JITTER_MS == 4000

(* Math.floor(Math.random() * HP_JITTER_MS) is one of 0 .. HP_JITTER_MS - 1;  *)
(* the model draws the least and the greatest of them.                      *)
JitterChoices == {0, HP_JITTER_MS - 1}

----------------------------------------------------------------------------
(* Bounds of the model *)

\* the clock advances in steps of one TTL, at most this many times
MaxClock == 2
\* HP poll requests issued
MaxHpReqs == 2
\* Battle_Control poll requests issued
MaxBcReqs == 3
\* rows in one HP poll response
MaxHpRows == 2
\* batches submitted
MaxSubmits == 2
\* rows in one Battle_Control response
MaxBcRows == 2
\* rows in one HP poll response about the student of homeroom B
MaxSoloRows == 1
\* batches submitted where the polls are looked at
PollSubmits == 1

\* HP requests, batches and rows of the specification of homeroom A
PairHpReqs == 2

PairSubmits == 1

MaxPairRows == 2

\* HP and Battle_Control requests where the page is blurred and focused
ActiveHpReqs == 3

ActiveBcReqs == 4

\* HP requests where the cycles of the interval are looked at
CycleHpReqs == 4

\* characters in a raw id, and HP requests where the ids are looked at
MaxIdLen == 4

CanonHpReqs == 2

\* HP requests where the spellings of one id are looked at
NamedHpReqs == 3

\* HP requests of the battle page where the dashboard and the store run too
CopiesHpReqs == 2

\* HP requests of the battle page where the numbers of a row are looked at
ParseHpReqs == 2

\* HP requests where the ledger is watched over every handler of the page
FrameHpReqs == 2
\* ids the selection holds in the specification of the selection
MaxSelected == 4

ClockStep == PENDING_TTL_MS

----------------------------------------------------------------------------
(* Characters and strings *)

QuoteChars == {"dquote", "'", "lsquo", "rsquo", "ldquo", "rdquo"}

\* what JavaScript's \s and trim() take for white space, as far as the model's
\* alphabet goes (U+00A0 is white space for both)
WhiteChars == {" ", "nbsp", "tab"}

DashChars == {"endash", "emdash"}

LowerLetters == <<"a", "b", "c", "d", "e", "f", "g", "h", "i", "j", "k", "l", "m",
                  "n", "o", "p", "q", "r", "s", "t", "u", "v", "w", "x", "y", "z">>

UpperLetters == <<"A", "B", "C", "D", "E", "F", "G", "H", "I", "J", "K", "L", "M",
                  "N", "O", "P", "Q", "R", "S", "T", "U", "V", "W", "X", "Y", "Z">>

toUpperChar(c) ==
    IF \E i \in 1..Len(LowerLetters) : LowerLetters[i] = c
    THEN UpperLetters[CHOOSE i \in 1..Len(LowerLetters) : LowerLetters[i] = c]
    ELSE c

toUpperCase(s) == [i \in 1..Len(s) |-> toUpperChar(s[i])]

RECURSIVE dropLeading(_, _)
dropLeading(s, cs) ==
    IF s # <<>> /\ Head(s) \in cs THEN dropLeading(Tail(s), cs) ELSE s

RECURSIVE dropTrailing(_, _)
dropTrailing(s, cs) ==
    IF s # <<>> /\ s[Len(s)] \in cs
    THEN dropTrailing(SubSeq(s, 1, Len(s) - 1), cs)
    ELSE s

trim(s) == dropTrailing(dropLeading(s, WhiteChars), WhiteChars)

\* s.replace(/c/g, d) for every character c of cs
replaceChars(s, cs, d) == [i \in 1..Len(s) |-> IF s[i] \in cs THEN d ELSE s[i]]

\* s.replace(/\s+/g, "")
removeWhite(s) == SelectSeq(s, LAMBDA c : c \notin WhiteChars)

stripQuotes(s) ==
    IF s = <<>> THEN <<>>
    ELSE dropTrailing(dropLeading(trim(s), QuoteChars), QuoteChars)

\* null or undefined where a string is expected: a token that is no character
NullId == <<"null">>

\* a canonicalizer that leaves the en and em dashes as they are
normId_keepDashes(id) ==
    LET str == IF id = NullId THEN <<>> ELSE id
    IN toUpperCase(trim(removeWhite(replaceChars(stripQuotes(str), {"nbsp"}, " "))))

normId(id) ==
    LET str == IF id = NullId THEN <<>> ELSE id
    IN toUpperCase(trim(removeWhite(
           replaceChars(replaceChars(stripQuotes(str), {"nbsp"}, " "), DashChars, "-"))))


\* the copy in hpApi.ts, where no quote is stripped
hpApi_normId(id) ==
    LET str == IF id = NullId THEN <<>> ELSE id
    IN toUpperCase(trim(removeWhite(
           replaceChars(replaceChars(str, {"nbsp"}, " "), DashChars, "-"))))

\* the copy in App.tsx
App_normId(id) ==
    LET str == IF id = NullId THEN <<>> ELSE id
    IN toUpperCase(trim(removeWhite(
           replaceChars(replaceChars(str, {"nbsp"}, " "), DashChars, "-"))))

\* the copy in StorePage.tsx
normIdForConfirm(v) ==
    LET str == IF v = NullId THEN <<>> ELSE v
    IN toUpperCase(trim(removeWhite(
           replaceChars(replaceChars(str, {"nbsp"}, " "), DashChars, "-"))))

----------------------------------------------------------------------------
(* Numbers and rows as the HP endpoint sends them *)

Max(a, b) == IF a >= b THEN a ELSE b

Min(a, b) == IF a <= b THEN a ELSE b

\* a JSON field: absent/null/"", a number, or text without a digit in it
Null == [k |-> "null", v |-> 0]

Num(n) == [k |-> "num", v |-> n]

Junk == [k |-> "junk", v |-> 0]

toNumber(n, fallback) == IF n.k = "num" THEN n.v ELSE fallback

\* a parse that takes the numbers as they come
parseHpRow_noClamp(r) ==
    [studentId |-> normId(r.studentId),
     baseHP |-> toNumber(r.baseHP, DEFAULT_HP),
     currentHP |-> toNumber(r.currentHP, toNumber(r.baseHP, DEFAULT_HP))]

\* one element of data.hp, parsed; its id may come out empty
parseHpRow(r) ==
    LET id == normId(r.studentId)
        baseHP == Max(1, toNumber(r.baseHP, DEFAULT_HP))
        currentHP == Max(0, Min(baseHP, toNumber(r.currentHP, baseHP)))
    IN [studentId |-> id, baseHP |-> baseHP, currentHP |-> currentHP]

\* data.hp.map(...).filter(Boolean)
parseHp(raw) ==
    SelectSeq([i \in 1..Len(raw) |-> parseHpRow(raw[i])],
              LAMBDA row : row.studentId # <<>>)

----------------------------------------------------------------------------
(* The pending ledger and the display merge *)

NoPending == [id \in {} |-> 0]

\* a ledger where the entry recorded first stays
pendingSet_keepFirst(p, id, entry) ==
    IF id \in DOMAIN p THEN p
    ELSE [x \in DOMAIN p \cup {id} |-> IF x = id THEN entry ELSE p[x]]

pendingSet(p, id, entry) == [x \in DOMAIN p \cup {id} |-> IF x = id THEN entry ELSE p[x]]

pendingDelete(p, id) == [x \in DOMAIN p \ {id} |-> p[x]]

\* the TTL test with >= for >
expired_atTtl(p, t) == t - p.ts >= PENDING_TTL_MS

\* the TTL test of a pending entry against a poll's clock reading
expired(p, t) == t - p.ts > PENDING_TTL_MS

\* the reconciliation without the test for a match: only the TTL drops an entry
RECURSIVE reconcile_noMatch(_, _, _)
reconcile_noMatch(parsed, pend, t) ==
    IF parsed = <<>> THEN <<(<<>>), pend>>
    ELSE LET row == Head(parsed)
             id == normId(row.studentId)
             keepEntry == id \in DOMAIN pend /\ ~expired(pend[id], t)
             out == IF keepEntry
                    THEN [studentId |-> id, baseHP |-> pend[id].base,
                          currentHP |-> pend[id].expected]
                    ELSE row
             rest == reconcile_noMatch(Tail(parsed),
                               IF keepEntry THEN pend ELSE pendingDelete(pend, id), t)
         IN <<(<<out>>) \o rest[1], rest[2]>>

\* the reconciliation that trusts the poll: a polled row always replaces the
\* entry of its id
RECURSIVE reconcile_trustPoll(_, _, _)
reconcile_trustPoll(parsed, pend, t) ==
    IF parsed = <<>> THEN <<(<<>>), pend>>
    ELSE LET rest == reconcile_trustPoll(Tail(parsed),
                         pendingDelete(pend, normId(Head(parsed).studentId)), t)
         IN <<(<<Head(parsed)>>) \o rest[1], rest[2]>>

\* a reconciliation that looks at the first row only and passes the others on
\* as they came
reconcile_firstRow(parsed, pend, t) ==
    IF parsed = <<>> THEN <<(<<>>), pend>>
    ELSE LET row == Head(parsed)
             id == normId(row.studentId)
             keepEntry == id \in DOMAIN pend
                          /\ ~expired(pend[id], t)
                          /\ row.currentHP # pend[id].expected
             out == IF keepEntry
                    THEN [studentId |-> id, baseHP |-> pend[id].base,
                          currentHP |-> pend[id].expected]
                    ELSE row
         IN <<(<<out>>) \o Tail(parsed),
              IF keepEntry THEN pend ELSE pendingDelete(pend, id)>>

\* parsed.map((row) => ...): the rows are reconciled in order, against the
\* ledger as the earlier rows of the same response left it.
\* The result is <<finalRows, pending>>.
RECURSIVE reconcile(_, _, _)
reconcile(parsed, pend, t) ==
    IF parsed = <<>> THEN <<(<<>>), pend>>
    ELSE LET row == Head(parsed)
             id == normId(row.studentId)
             keepEntry == id \in DOMAIN pend
                          /\ ~expired(pend[id], t)
                          /\ row.currentHP # pend[id].expected
             out == IF keepEntry
                    THEN [studentId |-> id, baseHP |-> pend[id].base,
                          currentHP |-> pend[id].expected]
                    ELSE row
             rest == reconcile(Tail(parsed),
                               IF keepEntry THEN pend ELSE pendingDelete(pend, id), t)
         IN <<(<<out>>) \o rest[1], rest[2]>>

\* the map built from hpRows: a later row of the same id replaces an earlier one
RECURSIVE hpById(_)
hpById(rows) ==
    IF rows = <<>> THEN [id \in {} |-> 0]
    ELSE LET r == rows[Len(rows)]
             id == normId(r.studentId)
             m == hpById(SubSeq(rows, 1, Len(rows) - 1))
         IN [x \in DOMAIN m \cup {id} |->
                IF x = id THEN [r EXCEPT !.studentId = id] ELSE m[x]]

\* the merge without the ledger: the snapshot row or the default
getDisplayHp_noLedger(studentIdRaw, pend, rows) ==
    LET id == normId(studentIdRaw)
        m == hpById(rows)
    IN IF id \in DOMAIN m THEN m[id]
       ELSE [studentId |-> id, baseHP |-> DEFAULT_HP, currentHP |-> DEFAULT_HP]

getDisplayHp(studentIdRaw, pend, rows) ==
    LET id == normId(studentIdRaw)
        m == hpById(rows)
    IN IF id \in DOMAIN pend
       THEN [studentId |-> id, baseHP |-> pend[id].base, currentHP |-> pend[id].expected]
       ELSE IF id \in DOMAIN m THEN m[id]
       ELSE [studentId |-> id, baseHP |-> DEFAULT_HP, currentHP |-> DEFAULT_HP]

----------------------------------------------------------------------------
(* Battle_Control rows *)

ACTIVE == <<"A", "C", "T", "I", "V", "E">>

\* one CSV data row, as getCell returns its three cells
parseBcRow(r) ==
    [homeroom |-> trim(stripQuotes(r.homeroom)),
     status |-> trim(stripQuotes(r.status)),
     sessionId |-> trim(stripQuotes(r.sessionId))]

\* rows.map(...).filter(Boolean): a row with an empty cell is dropped
parseBc(raw) ==
    SelectSeq([i \in 1..Len(raw) |-> parseBcRow(raw[i])],
              LAMBDA r : r.homeroom # <<>> /\ r.status # <<>> /\ r.sessionId # <<>>)

isActive(r) == toUpperCase(r.status) = ACTIVE

activesOf(rows) == SelectSeq(rows, isActive)

\* the first ACTIVE row, whatever the selection
pickActive_first(actives, homeroom) == actives[1]

\* actives.find((r) => r.homeroom === activeHomeroom) ?? actives[0]
pickActive(actives, homeroom) ==
    IF \E i \in 1..Len(actives) : actives[i].homeroom = homeroom
    THEN actives[CHOOSE i \in 1..Len(actives) :
                    /\ actives[i].homeroom = homeroom
                    /\ \A j \in 1..(i - 1) : actives[j].homeroom # homeroom]
    ELSE actives[1]

----------------------------------------------------------------------------
(* What the environment supplies *)

\* the roster loadStudents() returns
Roster ==
    << [id |-> <<"e", "1">>, homeroom |-> <<"A">>, guild |-> "G1"],
       [id |-> <<"E", "2">>, homeroom |-> <<"A">>, guild |-> "G2"],
       [id |-> <<"e", "3">>, homeroom |-> <<"B">>, guild |-> "G1"] >>

\* a roster whose sheet holds the id of the second student behind a pair of
\* quotes with a space between them
SelectRoster ==
    << [id |-> <<"e", "1">>, homeroom |-> <<"A">>, guild |-> "G1"],
       [id |-> <<"'", " ", "'", "e", "2">>, homeroom |-> <<"A">>, guild |-> "G2"],
       [id |-> <<"e", "3">>, homeroom |-> <<"B">>, guild |-> "G1"] >>

\* rows the HP endpoint may send
HpRowChoices ==
    { [studentId |-> <<"e", "1">>, baseHP |-> Num(20), currentHP |-> c] :
        c \in {Num(1), Num(15), Num(25)} }
    \cup { [studentId |-> <<"E", "2">>, baseHP |-> Null, currentHP |-> Num(15)] }

RECURSIVE SeqsUpTo(_, _)
SeqsUpTo(S, n) ==
    IF n = 0 THEN {<<>>}
    ELSE LET shorter == SeqsUpTo(S, n - 1)
         IN shorter \cup {Append(q, x) : q \in {r \in shorter : Len(r) = n - 1}, x \in S}

HpResponses == SeqsUpTo(HpRowChoices, MaxHpRows)

\* rows for the one student of homeroom B
SoloRowChoices ==
    { [studentId |-> <<" ", "e", "3">>, baseHP |-> Num(20), currentHP |-> c] :
        c \in {Num(1), Num(15)} }
    \cup { [studentId |-> <<"E", "3">>, baseHP |-> Num(30), currentHP |-> Num(15)] }

SoloResponses == SeqsUpTo(SoloRowChoices, MaxSoloRows)

\* rows for the two students of homeroom A
PairRowChoices ==
    { [studentId |-> <<"e", "1">>, baseHP |-> Num(20), currentHP |-> Num(15)],
      [studentId |-> <<"E", "2">>, baseHP |-> Null, currentHP |-> Num(15)] }

PairResponses == SeqsUpTo(PairRowChoices, MaxPairRows)

\* rows for the two students of homeroom A, the first as a mutation of -1 on
\* the default leaves it
PublishRowChoices ==
    { [studentId |-> <<"e", "1">>, baseHP |-> Num(20), currentHP |-> Num(19)],
      [studentId |-> <<"E", "2">>, baseHP |-> Null, currentHP |-> Num(15)] }

PublishResponses == SeqsUpTo(PublishRowChoices, MaxPairRows)

\* raw ids: null, and every string up to MaxIdLen of a quote, a space, a
\* letter and a dash
IdChars == {"'", " ", "a", "emdash"}

RawIds == {NullId} \cup SeqsUpTo(IdChars, MaxIdLen)

\* spellings of one id as a sheet may hold them
NamedIds ==
    { <<" ", "a", "-", "1", " ">>, <<"A", "1">>, <<"A", "emdash", "1">>,
      <<"A", "endash", "1">>, <<"A", "-", "1">>, <<"dquote", "a", "nbsp", "-", "1", "dquote">> }

\* spellings of the id of the student of homeroom B, bare and in quotes
QuotedIds ==
    { <<"e", "3">>, <<" ", "E", "3">>, <<"dquote", "e", "3", "dquote">>,
      <<"'", "E", "3", "'">> }

\* responses of one row each
responsesOf(ids) ==
    { <<[studentId |-> id, baseHP |-> Num(20), currentHP |-> Num(15)]>> : id \in ids }

CanonResponses == responsesOf(RawIds)

NamedResponses == responsesOf(NamedIds)

QuotedResponses == responsesOf(QuotedIds)

\* rows of the student of homeroom B whose numbers are out of range, missing
\* or small enough for a heal to reach the maximum
RangeRowChoices ==
    { [studentId |-> <<"E", "3">>, baseHP |-> Num(20), currentHP |-> Num(25)],
      [studentId |-> <<"E", "3">>, baseHP |-> Num(0), currentHP |-> Num(-3)],
      [studentId |-> <<"E", "3">>, baseHP |-> Null, currentHP |-> Null],
      [studentId |-> <<"E", "3">>, baseHP |-> Num(3), currentHP |-> Num(2)] }

RangeResponses == SeqsUpTo(RangeRowChoices, MaxSoloRows)

\* rows of the student of homeroom B as a sheet edited by hand may give them:
\* the id bare, blank, a pair of quotes or missing; the numbers missing,
\* negative, above the maximum, or a text without a digit
ParseIds == {<<" ", "e", "3">>, <<" ">>, <<"'", " ", "'">>, NullId}

ParseRowChoices ==
    { [studentId |-> id, baseHP |-> Num(30), currentHP |-> Num(7)] : id \in ParseIds }
    \cup { [studentId |-> <<" ", "e", "3">>, baseHP |-> b, currentHP |-> c] :
              b \in {Null, Num(-5), Junk}, c \in {Null, Num(-3), Num(50), Junk} }

ParseResponses == {<<r>> : r \in ParseRowChoices}

\* rows of the Battle_Control sheet
BcRowChoices ==
    { [homeroom |-> <<"A">>, status |-> ACTIVE, sessionId |-> <<"s", "1">>],
      [homeroom |-> <<"A">>, status |-> ACTIVE, sessionId |-> <<"s", "2">>],
      [homeroom |-> <<"B">>, status |-> <<"a", "c", "t", "i", "v", "e">>,
       sessionId |-> <<"s", "3">>],
      [homeroom |-> <<"B">>, status |-> <<"O", "F", "F">>, sessionId |-> <<"s", "3">>] }

BcResponses == SeqsUpTo(BcRowChoices, MaxBcRows)

\* the ACTIVE rows among them
SessionRowChoices == {r \in BcRowChoices : toUpperCase(r.status) = ACTIVE}

SessionResponses == SeqsUpTo(SessionRowChoices, MaxBcRows)

\* sheets seen from homeroom A: its session id changed, alone or with
\* homeroom B beside it, homeroom B alone, and a text that is not the sheet
\* (no cell is found under any of the column names)
ScopeResponses ==
    { << [homeroom |-> <<"A">>, status |-> ACTIVE, sessionId |-> <<"s", "2">>] >>,
      << [homeroom |-> <<"A">>, status |-> ACTIVE, sessionId |-> <<"s", "2">>],
         [homeroom |-> <<"B">>, status |-> ACTIVE, sessionId |-> <<"s", "3">>] >>,
      << [homeroom |-> <<"B">>, status |-> ACTIVE, sessionId |-> <<"s", "3">>] >>,
      << [homeroom |-> <<>>, status |-> <<>>, sessionId |-> <<>>] >> }

\* sheets seen from homeroom A: its session id rotated, coming out of the
\* parse with a quote left in front, and homeroom B alone
TokenResponses ==
    { << [homeroom |-> <<"A">>, status |-> ACTIVE,
          sessionId |-> <<"'", " ", "'", "s", "2", "'">>] >>,
      << [homeroom |-> <<"B">>, status |-> ACTIVE, sessionId |-> <<"s", "3">>] >> }

\* sheets seen from homeroom A: homeroom B beside it, and homeroom B alone
FrameBcResponses ==
    { << [homeroom |-> <<"A">>, status |-> ACTIVE, sessionId |-> <<"s", "1">>],
         [homeroom |-> <<"B">>, status |-> ACTIVE, sessionId |-> <<"s", "3">>] >>,
      << [homeroom |-> <<"B">>, status |-> ACTIVE, sessionId |-> <<"s", "3">>] >> }

\* HP responses of one row: the first student's, as a mutation of -1 on the
\* default leaves it, and as another writer left it
FrameHpResponses ==
    { << [studentId |-> <<"e", "1">>, baseHP |-> Num(20), currentHP |-> c] >> :
        c \in {Num(19), Num(15)} }

\* a sheet without a row, and one with homeroom B's row, ACTIVE or not
GuardResponses ==
    { <<>>,
      << [homeroom |-> <<"B">>, status |-> ACTIVE, sessionId |-> <<"s", "3">>] >>,
      << [homeroom |-> <<"B">>, status |-> <<"O", "F", "F">>,
          sessionId |-> <<"s", "3">>] >> }

----------------------------------------------------------------------------
(* State *)

VARIABLES
    now,              \* Date.now()
    pageActive,       \* usePageActive()
    students,         \* useState: the roster, empty until loadStudents resolves
    battleRows,       \* useState
    hpRows,           \* useState
    activeHomeroom,   \* useState
    activeSessionId,  \* useState
    guildFilter,      \* useState
    multiSelect,      \* useState
    selectedIds,      \* useState
    delta,            \* useState
    note,             \* useState
    submitting,       \* useState
    banner,           \* useState
    pending,          \* pendingRef.current
    hpReqs,           \* HP fetches in flight: [seq, alive], alive the flag of the
                      \* effect run that issued the fetch
    hpSeq,            \* HP fetches issued so far
    bcReqs,           \* Battle_Control fetches in flight: [seq, alive]
    appStudents,      \* App.tsx useState students: the dashboard's roster with HP
    confirmId,        \* StorePage useState: the id typed to confirm a purchase
    hpInterval,       \* period of the HP poller's interval, 0 when none is set
    bcSeq,            \* Battle_Control fetches issued so far
    batches,          \* the onSubmit calls in flight, each awaiting its write
    submits,          \* batches started so far
    polled,           \* of each entity, the row the poll applied last reported for it
    outcomeLog,       \* of each batch finished so far, how its writes went
    last              \* the handler that ran last, with its inputs and branch

vars == <<now, pageActive, students, battleRows, hpRows, activeHomeroom,
          activeSessionId, guildFilter, multiSelect, selectedIds, delta, note,
          submitting, banner, pending, hpReqs, hpSeq, hpInterval, bcReqs, bcSeq,
          batches, submits, outcomeLog, polled, appStudents, confirmId, last>>

uiVars == <<guildFilter, multiSelect, selectedIds, delta, note, banner>>

sessionVars == <<battleRows, activeHomeroom, activeSessionId>>

hpVars == <<hpRows, pending>>

NoBanner == [type |-> "none", msg |-> "", ok |-> 0, fail |-> 0]

ErrBanner(msg) == [type |-> "err", msg |-> msg, ok |-> 0, fail |-> 0]

\* the displayed value of an entity in the current state
display(id) == getDisplayHp(id, pending, hpRows)

\* the fetch each poller issues when its effect runs with the page active
firstReq(active) == IF active THEN {[seq |-> 1, alive |-> TRUE]} ELSE {}

InitWith(active) ==
    /\ now = 0
    /\ pageActive = active
    /\ students = <<>>
    /\ battleRows = <<>>
    /\ hpRows = <<>>
    /\ activeHomeroom = <<>>
    /\ activeSessionId = <<>>
    /\ guildFilter = "ALL"
    /\ multiSelect = TRUE
    /\ selectedIds = <<>>
    /\ delta = -1
    /\ note = <<>>
    /\ submitting = FALSE
    /\ banner = NoBanner
    /\ pending = NoPending
    /\ hpReqs = firstReq(active)
    /\ hpSeq = IF active THEN 1 ELSE 0
    /\ hpInterval \in IF active THEN {HP_POLL_MS + jitter : jitter \in JitterChoices}
                             ELSE {0}
    /\ bcReqs = firstReq(active)
    /\ bcSeq = IF active THEN 1 ELSE 0
    /\ batches = <<>>
    /\ submits = 0
    /\ outcomeLog = <<>>
    /\ polled = hpById(<<>>)
    /\ appStudents = <<>>
    /\ confirmId = <<>>
    /\ last = [op |-> "mount"]

Init == \E active \in BOOLEAN : InitWith(active)

----------------------------------------------------------------------------
(* The clock and the page's visibility *)

Tick ==
    /\ now' = now + ClockStep
    /\ last' = [op |-> "tick"]
    /\ UNCHANGED <<pageActive, students, battleRows, hpRows, activeHomeroom,
                   activeSessionId, guildFilter, multiSelect, selectedIds, delta,
                   note, submitting, banner, pending, hpReqs, hpSeq, hpInterval, bcReqs, bcSeq,
                   batches, submits, outcomeLog,
                   appStudents, confirmId, polled>>

\* a cleanup that leaves the alive flags set
killed_none(reqs) == reqs

killed(reqs) == {[r EXCEPT !.alive = FALSE] : r \in reqs}

\* a blur that also empties the ledger
BecomeInactive_dropsLedger ==
    /\ pageActive
    /\ pageActive' = FALSE
    /\ hpReqs' = killed(hpReqs)
    /\ bcReqs' = killed(bcReqs)
    /\ hpInterval' = 0
    /\ pending' = NoPending
    /\ last' = [op |-> "inactive"]
    /\ UNCHANGED <<now, students, hpRows, sessionVars, uiVars, submitting, hpSeq,
                   bcSeq, batches, submits, outcomeLog,
                   appStudents, confirmId, polled>>

\* blur or hide: both pollers' cleanups run
BecomeInactive ==
    /\ pageActive
    /\ pageActive' = FALSE
    /\ hpReqs' = killed(hpReqs)
    /\ bcReqs' = killed(bcReqs)
    /\ hpInterval' = 0
    /\ last' = [op |-> "inactive"]
    /\ UNCHANGED <<now, students, hpVars, sessionVars, uiVars, submitting, hpSeq,
                   bcSeq, batches, submits, outcomeLog,
                   appStudents, confirmId, polled>>

\* focus or show where the HP poller's effect issues no fetch of its own
BecomeActive_noFetch ==
    /\ ~pageActive
    /\ pageActive' = TRUE
    /\ \E jitter \in JitterChoices : hpInterval' = HP_POLL_MS + jitter
    /\ bcSeq' = bcSeq + 1
    /\ bcReqs' = bcReqs \cup {[seq |-> bcSeq + 1, alive |-> TRUE]}
    /\ last' = [op |-> "active"]
    /\ UNCHANGED <<now, students, hpVars, sessionVars, uiVars, submitting, batches,
                   submits, outcomeLog, hpSeq, hpReqs,
                   appStudents, confirmId, polled>>

\* focus or show: both pollers' effects run, each fetching at once and
\* setting its interval
BecomeActive ==
    /\ ~pageActive
    /\ pageActive' = TRUE
    /\ hpSeq' = hpSeq + 1
    /\ hpReqs' = hpReqs \cup {[seq |-> hpSeq + 1, alive |-> TRUE]}
    /\ \E jitter \in JitterChoices : hpInterval' = HP_POLL_MS + jitter
    /\ bcSeq' = bcSeq + 1
    /\ bcReqs' = bcReqs \cup {[seq |-> bcSeq + 1, alive |-> TRUE]}
    /\ last' = [op |-> "active"]
    /\ UNCHANGED <<now, students, hpVars, sessionVars, uiVars, submitting, batches,
                   submits, outcomeLog,
                   appStudents, confirmId, polled>>

----------------------------------------------------------------------------
(* The HP poller *)

\* an interval whose every tick draws its period afresh
HpTimer_reroll ==
    /\ hpInterval # 0
    /\ hpSeq' = hpSeq + 1
    /\ hpReqs' = hpReqs \cup {[seq |-> hpSeq + 1, alive |-> TRUE]}
    /\ \E jitter \in JitterChoices : hpInterval' = HP_POLL_MS + jitter
    /\ last' = [op |-> "hpRequest", seq |-> hpSeq + 1, delay |-> hpInterval]
    /\ UNCHANGED <<now, pageActive, students, hpVars, sessionVars, uiVars,
                   submitting, bcReqs, bcSeq, batches, submits, outcomeLog,
                   appStudents, confirmId, polled>>

\* a tick of window.setInterval(loadHpFromApi, HP_POLL_MS + jitter), one period
\* after the tick or the effect run before it: the fetch is issued
HpTimer ==
    /\ hpInterval # 0
    /\ hpSeq' = hpSeq + 1
    /\ hpReqs' = hpReqs \cup {[seq |-> hpSeq + 1, alive |-> TRUE]}
    /\ last' = [op |-> "hpRequest", seq |-> hpSeq + 1, delay |-> hpInterval]
    /\ UNCHANGED <<now, pageActive, students, hpVars, sessionVars, uiVars,
                   submitting, hpInterval, bcReqs, bcSeq, batches, submits, outcomeLog,
                   appStudents, confirmId, polled>>

\* a failed poll that drops the rows held
HpFailed_clears(req) ==
    /\ req \in hpReqs
    /\ hpReqs' = hpReqs \ {req}
    /\ hpRows' = <<>>
    /\ last' = [op |-> "hpFailed", seq |-> req.seq]
    /\ UNCHANGED <<now, pageActive, students, pending, sessionVars, uiVars,
                   submitting, hpSeq, hpInterval, bcReqs, bcSeq, batches, submits, outcomeLog,
                   appStudents, confirmId, polled>>

\* the fetch rejects, the body is no JSON, or the payload is not {ok, hp: [...]}
HpFailed(req) ==
    /\ req \in hpReqs
    /\ hpReqs' = hpReqs \ {req}
    /\ last' = [op |-> "hpFailed", seq |-> req.seq]
    /\ UNCHANGED <<now, pageActive, students, hpVars, sessionVars, uiVars,
                   submitting, hpSeq, hpInterval, bcReqs, bcSeq, batches, submits, outcomeLog,
                   appStudents, confirmId, polled>>

\* loadHpFromApi after its awaits, with data.hp = raw
loadHpFromApi(req, raw) ==
    /\ req \in hpReqs
    /\ hpReqs' = hpReqs \ {req}
    /\ IF ~req.alive
       THEN /\ UNCHANGED <<hpRows, pending, polled>>
            /\ last' = [op |-> "hpStale", seq |-> req.seq]
       ELSE LET parsed == parseHp(raw)
                res == reconcile(parsed, pending, now)
                seen == hpById(parsed)
            IN /\ hpRows' = res[1]
               /\ pending' = res[2]
               /\ polled' = [id \in DOMAIN polled \cup DOMAIN seen |->
                                IF id \in DOMAIN seen THEN seen[id] ELSE polled[id]]
               /\ last' = [op |-> "hpApplied", seq |-> req.seq, raw |-> raw,
                           parsed |-> parsed,
                           dropped |-> [id \in DOMAIN pending \ DOMAIN res[2] |->
                                           pending[id]]]
    /\ UNCHANGED <<now, pageActive, students, sessionVars, uiVars, submitting,
                   hpSeq, hpInterval, bcReqs, bcSeq, batches, submits, outcomeLog,
                   appStudents, confirmId>>

----------------------------------------------------------------------------
(* The dashboard (App.tsx with fetchHpMap of hpApi.ts) and the store's       *)
(* confirmation field                                                       *)

NaN == [k |-> "nan", v |-> 0]

\* Number(x ?? fallback), a field without value being null here
appNumber(n, fallback) ==
    IF n.k = "num" THEN n ELSE IF n.k = "null" THEN Num(fallback) ELSE NaN

\* one element of data.hp as fetchHpMap reads it
hpMapRow(r) ==
    LET id == hpApi_normId(r.studentId)
        b == appNumber(r.baseHP, DEFAULT_HP)
        baseHP == IF b = NaN THEN NaN ELSE Num(Max(1, b.v))
        c == IF baseHP = NaN THEN NaN ELSE appNumber(r.currentHP, baseHP.v)
        currentHP == IF c = NaN THEN NaN ELSE Num(Max(0, Min(baseHP.v, c.v)))
    IN [id |-> id, baseHP |-> baseHP, currentHP |-> currentHP]

\* the Map fetchHpMap returns, as the rows set in it in order
fetchHpMap(raw) ==
    SelectSeq([i \in 1..Len(raw) |-> hpMapRow(raw[i])], LAMBDA row : row.id # <<>>)

hpMapHas(hpMap, key) == \E i \in 1..Len(hpMap) : hpMap[i].id = key

\* hpMap.get(key): the row set last under the key
hpMapGet(hpMap, key) ==
    hpMap[CHOOSE i \in 1..Len(hpMap) :
            /\ hpMap[i].id = key
            /\ \A j \in (i + 1)..Len(hpMap) : hpMap[j].id # key]

\* a student of the dashboard, without HP until a row of the map is merged in
appStudent(st) == [id |-> st.id, hasHp |-> FALSE, baseHP |-> Null, currentHP |-> Null]

mergeHp(st, hpMap) ==
    LET key == App_normId(st.id)
    IN IF hpMapHas(hpMap, key)
       THEN [st EXCEPT !.hasHp = TRUE, !.baseHP = hpMapGet(hpMap, key).baseHP,
                       !.currentHP = hpMapGet(hpMap, key).currentHP]
       ELSE st

\* the mount effect of App: loadStudents(), fetchHpMap(), merge, setStudents
AppLoad(raw) ==
    /\ appStudents = <<>>
    /\ LET hpMap == fetchHpMap(raw)
       IN /\ appStudents' = [i \in 1..Len(Roster) |-> mergeHp(appStudent(Roster[i]), hpMap)]
          /\ last' = [op |-> "appLoad", raw |-> raw,
                      keys |-> [i \in 1..Len(hpMap) |-> hpMap[i].id]]
    /\ UNCHANGED <<now, pageActive, students, hpVars, sessionVars, uiVars, submitting,
                   hpReqs, hpSeq, hpInterval, bcReqs, bcSeq, batches, submits,
                   outcomeLog, confirmId, polled>>

\* tick of App's poller: fetchHpMap(), then the rows found are merged in
AppTick(raw) ==
    /\ appStudents # <<>>
    /\ LET hpMap == fetchHpMap(raw)
       IN /\ appStudents' = [i \in 1..Len(appStudents) |-> mergeHp(appStudents[i], hpMap)]
          /\ last' = [op |-> "appTick", raw |-> raw,
                      keys |-> [i \in 1..Len(hpMap) |-> hpMap[i].id]]
    /\ UNCHANGED <<now, pageActive, students, hpVars, sessionVars, uiVars, submitting,
                   hpReqs, hpSeq, hpInterval, bcReqs, bcSeq, batches, submits,
                   outcomeLog, confirmId, polled>>

\* onChange of the store's confirmation input
setConfirmId(v) ==
    /\ confirmId' = v
    /\ last' = [op |-> "setConfirmId"]
    /\ UNCHANGED <<now, pageActive, students, hpVars, sessionVars, uiVars, submitting,
                   hpReqs, hpSeq, hpInterval, bcReqs, bcSeq, batches, submits,
                   outcomeLog, appStudents, polled>>

\* confirmOk of the store, with the student selected there
confirmOk(selected) == normIdForConfirm(confirmId) = normIdForConfirm(selected.id)

----------------------------------------------------------------------------
(* Tiles and selection *)

studentsInActiveHomeroom(studs, homeroom) ==
    IF homeroom = <<>> THEN <<>>
    ELSE SelectSeq(studs, LAMBDA st : trim(st.homeroom) = homeroom)

visibleTiles(studs, homeroom, guild) ==
    IF guild = "ALL" THEN studentsInActiveHomeroom(studs, homeroom)
    ELSE SelectSeq(studentsInActiveHomeroom(studs, homeroom),
                   LAMBDA st : st.guild = guild)

\* the ids of the tiles on screen
tileIds(studs, homeroom, guild) ==
    LET tiles == visibleTiles(studs, homeroom, guild)
    IN {normId(tiles[i].id) : i \in 1..Len(tiles)}

\* the effect on [visibleTiles]: the selection keeps the ids still on screen
keepVisible(sel, studs, homeroom, guild) ==
    SelectSeq(sel, LAMBDA id : normId(id) \in tileIds(studs, homeroom, guild))

guildOptions(studs, homeroom) ==
    LET list == studentsInActiveHomeroom(studs, homeroom)
    IN {list[i].guild : i \in 1..Len(list)}

LoadStudents ==
    /\ students = <<>>
    /\ students' = Roster
    /\ selectedIds' = keepVisible(selectedIds, Roster, activeHomeroom, guildFilter)
    /\ last' = [op |-> "loadStudents"]
    /\ UNCHANGED <<now, pageActive, hpVars, sessionVars, guildFilter, multiSelect,
                   delta, note, banner, submitting, hpReqs, hpSeq, hpInterval, bcReqs, bcSeq,
                   batches, submits, outcomeLog,
                   appStudents, confirmId, polled>>

toggleSelect(idRaw) ==
    LET id == normId(idRaw)
        has == \E i \in 1..Len(selectedIds) : normId(selectedIds[i]) = id
    IN /\ id \in tileIds(students, activeHomeroom, guildFilter)
       /\ selectedIds' =
            IF ~multiSelect THEN <<id>>
            ELSE IF has THEN SelectSeq(selectedIds, LAMBDA x : normId(x) # id)
            ELSE Append(selectedIds, id)
       /\ last' = [op |-> "toggleSelect", id |-> id]
       /\ UNCHANGED <<now, pageActive, students, hpVars, sessionVars, guildFilter,
                      multiSelect, delta, note, banner, submitting, hpReqs, hpSeq, hpInterval,
                      bcReqs, bcSeq, batches, submits, outcomeLog,
                   appStudents, confirmId, polled>>

\* onClick of the Clear button
clearSelection ==
    /\ selectedIds' = <<>>
    /\ last' = [op |-> "clearSelection"]
    /\ UNCHANGED <<now, pageActive, students, hpVars, sessionVars, guildFilter,
                   multiSelect, delta, note, banner, submitting, hpReqs, hpSeq, hpInterval,
                   bcReqs, bcSeq, batches, submits, outcomeLog,
                   appStudents, confirmId, polled>>

\* onClick of the Multi/Single button
ToggleMultiSelect ==
    /\ multiSelect' = ~multiSelect
    /\ last' = [op |-> "multiSelect"]
    /\ UNCHANGED <<now, pageActive, students, hpVars, sessionVars, guildFilter,
                   selectedIds, delta, note, banner, submitting, hpReqs, hpSeq, hpInterval,
                   bcReqs, bcSeq, batches, submits, outcomeLog,
                   appStudents, confirmId, polled>>

SetGuildFilter(g) ==
    /\ g \in {"ALL"} \cup guildOptions(students, activeHomeroom)
    /\ g # guildFilter
    /\ guildFilter' = g
    /\ selectedIds' = keepVisible(selectedIds, students, activeHomeroom, g)
    /\ last' = [op |-> "guildFilter"]
    /\ UNCHANGED <<now, pageActive, students, hpVars, sessionVars, multiSelect,
                   delta, note, banner, submitting, hpReqs, hpSeq, hpInterval, bcReqs, bcSeq,
                   batches, submits, outcomeLog,
                   appStudents, confirmId, polled>>

SetDelta(d) ==
    /\ d \in DeltaChoices
    /\ d # delta
    /\ delta' = d
    /\ last' = [op |-> "setDelta"]
    /\ UNCHANGED <<now, pageActive, students, hpVars, sessionVars, guildFilter,
                   multiSelect, selectedIds, note, banner, submitting, hpReqs,
                   hpSeq, hpInterval, bcReqs, bcSeq, batches, submits, outcomeLog,
                   appStudents, confirmId, polled>>

NoteChoices == {<<"h", "i">>}

SetNote(n) ==
    /\ n \in NoteChoices
    /\ n # note
    /\ note' = n
    /\ last' = [op |-> "setNote"]
    /\ UNCHANGED <<now, pageActive, students, hpVars, sessionVars, guildFilter,
                   multiSelect, selectedIds, delta, banner, submitting, hpReqs,
                   hpSeq, hpInterval, bcReqs, bcSeq, batches, submits, outcomeLog,
                   appStudents, confirmId, polled>>

----------------------------------------------------------------------------
(* Session arbitration *)

\* the Battle_Control effect's part of it alone, without the reset effect
afterHomeroom_noReset(homeroom, reqs) ==
    /\ UNCHANGED <<selectedIds, banner, note, delta,
                   appStudents, confirmId, polled>>
    /\ IF homeroom = activeHomeroom \/ ~pageActive
       THEN /\ bcReqs' = IF homeroom = activeHomeroom THEN reqs ELSE killed(reqs)
            /\ bcSeq' = bcSeq
       ELSE /\ bcSeq' = bcSeq + 1
            /\ bcReqs' = killed(reqs) \cup {[seq |-> bcSeq + 1, alive |-> TRUE]}

\* a Battle_Control effect whose cleanup leaves the fetches in flight alive
afterHomeroom_noCleanup(homeroom, reqs) ==
    IF homeroom = activeHomeroom
    THEN /\ UNCHANGED <<selectedIds, banner, note, delta,
                   appStudents, confirmId, polled>>
         /\ bcReqs' = reqs
         /\ bcSeq' = bcSeq
    ELSE /\ selectedIds' = <<>>
         /\ banner' = NoBanner
         /\ note' = <<>>
         /\ delta' = -1
         /\ IF pageActive
            THEN /\ bcSeq' = bcSeq + 1
                 /\ bcReqs' = reqs \cup {[seq |-> bcSeq + 1, alive |-> TRUE]}
            ELSE /\ bcSeq' = bcSeq
                 /\ bcReqs' = reqs

\* what follows a render in which activeHomeroom has the value homeroom: when
\* it changed, the reset effect runs and the Battle_Control effect runs again
\* (its cleanup kills the fetches in flight, and it fetches at once)
afterHomeroom(homeroom, reqs) ==
    IF homeroom = activeHomeroom
    THEN /\ UNCHANGED <<selectedIds, banner, note, delta,
                   appStudents, confirmId, polled>>
         /\ bcReqs' = reqs
         /\ bcSeq' = bcSeq
    ELSE /\ selectedIds' = <<>>
         /\ banner' = NoBanner
         /\ note' = <<>>
         /\ delta' = -1
         /\ IF pageActive
            THEN /\ bcSeq' = bcSeq + 1
                 /\ bcReqs' = killed(reqs) \cup {[seq |-> bcSeq + 1, alive |-> TRUE]}
            ELSE /\ bcSeq' = bcSeq
                 /\ bcReqs' = killed(reqs)

\* a tick of window.setInterval(loadBattleControl, 10_000)
BcTimer ==
    /\ pageActive
    /\ bcSeq' = bcSeq + 1
    /\ bcReqs' = bcReqs \cup {[seq |-> bcSeq + 1, alive |-> TRUE]}
    /\ last' = [op |-> "bcRequest", seq |-> bcSeq + 1]
    /\ UNCHANGED <<now, pageActive, students, hpVars, sessionVars, uiVars,
                   submitting, hpReqs, hpSeq, hpInterval, batches, submits, outcomeLog,
                   appStudents, confirmId, polled>>

\* the fetch or r.text() rejects
BcFailed(req) ==
    /\ req \in bcReqs
    /\ bcReqs' = bcReqs \ {req}
    /\ last' = [op |-> "bcFailed", seq |-> req.seq]
    /\ UNCHANGED <<now, pageActive, students, hpVars, sessionVars, uiVars,
                   submitting, hpReqs, hpSeq, hpInterval, bcSeq, batches, submits, outcomeLog,
                   appStudents, confirmId, polled>>

\* loadBattleControl after its await, with the sheet's data rows raw
loadBattleControl(req, raw) ==
    /\ req \in bcReqs
    /\ IF ~req.alive
       THEN /\ bcReqs' = bcReqs \ {req}
            /\ last' = [op |-> "bcStale", seq |-> req.seq]
            /\ UNCHANGED <<sessionVars, uiVars, bcSeq,
                   appStudents, confirmId, polled>>
       ELSE LET parsed == parseBc(raw)
                actives == activesOf(parsed)
                pick == pickActive(actives, activeHomeroom)
                homeroom == IF Len(actives) > 0 THEN pick.homeroom ELSE <<>>
                sessionId == IF Len(actives) > 0 THEN pick.sessionId ELSE <<>>
            IN /\ battleRows' = parsed
               /\ activeHomeroom' = homeroom
               /\ activeSessionId' = sessionId
               /\ afterHomeroom(homeroom, bcReqs \ {req})
               /\ last' = [op |-> "bcApplied", seq |-> req.seq, parsed |-> parsed,
                           from |-> activeHomeroom]
               /\ UNCHANGED <<guildFilter, multiSelect,
                   appStudents, confirmId, polled>>
    /\ UNCHANGED <<now, pageActive, students, hpVars, submitting, hpReqs, hpSeq, hpInterval,
                   batches, submits, outcomeLog,
                   appStudents, confirmId, polled>>

\* a.localeCompare(b, "en", {numeric: true}) as -1, 0 or 1: runs of digits
\* compare as numbers, digits come before letters, letters compare without
\* their case, and over strings otherwise equal lower case comes first
Digits == <<"0", "1", "2", "3", "4", "5", "6", "7", "8", "9">>

isDigit(c) == \E i \in 1..Len(Digits) : Digits[i] = c

digitValue(c) == (CHOOSE i \in 1..Len(Digits) : Digits[i] = c) - 1

RECURSIVE digitRun(_)
digitRun(s) ==
    IF s # <<>> /\ isDigit(Head(s)) THEN <<Head(s)>> \o digitRun(Tail(s)) ELSE <<>>

RECURSIVE runValue(_)
runValue(s) ==
    IF s = <<>> THEN 0
    ELSE 10 * runValue(SubSeq(s, 1, Len(s) - 1)) + digitValue(s[Len(s)])

primaryRank(c) ==
    IF isDigit(c) THEN 1 + digitValue(c)
    ELSE IF \E i \in 1..Len(UpperLetters) : UpperLetters[i] = toUpperChar(c)
    THEN 100 + (CHOOSE i \in 1..Len(UpperLetters) : UpperLetters[i] = toUpperChar(c))
    ELSE 0

RECURSIVE comparePrimary(_, _)
comparePrimary(a, b) ==
    IF a = <<>> /\ b = <<>> THEN 0
    ELSE IF a = <<>> THEN -1
    ELSE IF b = <<>> THEN 1
    ELSE IF isDigit(Head(a)) /\ isDigit(Head(b))
    THEN LET ra == digitRun(a)
             rb == digitRun(b)
         IN IF runValue(ra) < runValue(rb) THEN -1
            ELSE IF runValue(ra) > runValue(rb) THEN 1
            ELSE comparePrimary(SubSeq(a, Len(ra) + 1, Len(a)),
                                SubSeq(b, Len(rb) + 1, Len(b)))
    ELSE IF primaryRank(Head(a)) < primaryRank(Head(b)) THEN -1
    ELSE IF primaryRank(Head(a)) > primaryRank(Head(b)) THEN 1
    ELSE comparePrimary(Tail(a), Tail(b))

RECURSIVE compareCase(_, _)
compareCase(a, b) ==
    IF a = <<>> \/ b = <<>> THEN 0
    ELSE IF Head(a) = Head(b) THEN compareCase(Tail(a), Tail(b))
    ELSE IF toUpperChar(Head(a)) # Head(a) THEN -1
    ELSE IF toUpperChar(Head(b)) # Head(b) THEN 1
    ELSE compareCase(Tail(a), Tail(b))

localeCompare(a, b) ==
    IF comparePrimary(a, b) # 0 THEN comparePrimary(a, b) ELSE compareCase(a, b)

\* rows.slice().sort(...) by homeroom; the sort is stable
RECURSIVE sortByHomeroom(_)
sortByHomeroom(rows) ==
    IF rows = <<>> THEN <<>>
    ELSE LET r == rows[Len(rows)]
             sorted == sortByHomeroom(SubSeq(rows, 1, Len(rows) - 1))
             k == Cardinality({i \in 1..Len(sorted) :
                                 localeCompare(sorted[i].homeroom, r.homeroom) <= 0})
         IN SubSeq(sorted, 1, k) \o <<r>> \o SubSeq(sorted, k + 1, Len(sorted))

\* the rows behind the "Active Homeroom" select
activeOptions == sortByHomeroom(activesOf(battleRows))

\* onChange of the select
chooseHomeroom(hr) ==
    /\ \E i \in 1..Len(activeOptions) : activeOptions[i].homeroom = hr
    /\ hr # activeHomeroom
    /\ activeHomeroom' = hr
    /\ activeSessionId' = pickActive(activeOptions, hr).sessionId
    /\ afterHomeroom(hr, bcReqs)
    /\ last' = [op |-> "chooseHomeroom", from |-> activeHomeroom]
    /\ UNCHANGED <<now, pageActive, students, hpVars, battleRows, guildFilter,
                   multiSelect, submitting, hpReqs, hpSeq, hpInterval, batches, submits, outcomeLog,
                   appStudents, confirmId, polled>>

----------------------------------------------------------------------------
(* The submission pipeline *)

\* next.findIndex((r) => normId(r.studentId) === id), 0 for -1
findIndex(rows, id) ==
    IF \E i \in 1..Len(rows) : normId(rows[i].studentId) = id
    THEN CHOOSE i \in 1..Len(rows) :
            /\ normId(rows[i].studentId) = id
            /\ \A j \in 1..(i - 1) : normId(rows[j].studentId) # id
    ELSE 0

\* the optimistic setHpRows: replace the entity's row, or push one
upsertRow(rows, row) ==
    LET idx == findIndex(rows, row.studentId)
    IN IF idx > 0 THEN [rows EXCEPT ![idx] = row] ELSE Append(rows, row)

\* the rollback setHpRows: replace the entity's row when there is one
restoreRow(rows, row) ==
    LET idx == findIndex(rows, row.studentId)
    IN IF idx > 0 THEN [rows EXCEPT ![idx] = row] ELSE rows

\* the clamp without its floor
clampAfter_noFloor(before, base, d) == Min(base, before + d)

\* Math.max(0, Math.min(base, before + delta))
clampAfter(before, base, d) == Max(0, Min(base, before + d))

\* Math.max(1, hp.baseHP || 20)
baseOf(hp) == Max(1, IF hp.baseHP = 0 THEN DEFAULT_HP ELSE hp.baseHP)

\* One turn of the loop up to its await, for target b.ids[b.i]: the read goes
\* through the getDisplayHp of the render onSubmit was called in, that is the
\* live ledger and that render's hpById (b.rows0).
\* The result is [b, pending, hpRows].
applyTarget(b, pend, rows, t) ==
    LET id == b.ids[b.i]
        hp == getDisplayHp(id, pend, b.rows0)
        before == hp.currentHP
        base == baseOf(hp)
        after == clampAfter(before, base, b.delta)
    IN [b |-> [b EXCEPT !.before = before, !.base = base],
        pending |-> pendingSet(pend, id, [expected |-> after, base |-> base, ts |-> t]),
        hpRows |-> upsertRow(rows, [studentId |-> id, baseHP |-> base,
                                    currentHP |-> after])]

\* the guards without the test of the session
guardMessage_noSessionTest ==
    IF Len(selectedIds) = 0 THEN "Select at least 1 student."
    ELSE IF delta \notin Int \/ delta = 0 THEN "Pick a damage/heal amount."
    ELSE ""

\* the guards without the test of the selection
guardMessage_sessionOnly ==
    IF activeHomeroom = <<>> \/ activeSessionId = <<>> THEN "Pick an ACTIVE homeroom."
    ELSE ""

\* the guards before the loop; "" when they pass
guardMessage ==
    IF activeHomeroom = <<>> \/ activeSessionId = <<>> THEN "Pick an ACTIVE homeroom."
    ELSE IF Len(selectedIds) = 0 THEN "Select at least 1 student."
    ELSE IF delta \notin Int \/ delta = 0 THEN "Pick a damage/heal amount."
    ELSE ""

\* the banner after the loop
resultBanner(ok, fail) ==
    IF fail = 0 THEN [type |-> "ok", msg |-> "Submitted", ok |-> ok, fail |-> 0]
    ELSE [type |-> "err", msg |-> "Partial", ok |-> ok, fail |-> fail]

\* no guard on re-entry
busy_never == FALSE

\* the guard on re-entry
busy == submitting

\* a call of onSubmit, up to its first await
onSubmit ==
    IF busy
    THEN /\ last' = [op |-> "submitBusy"]
         /\ UNCHANGED <<now, pageActive, students, hpVars, sessionVars, uiVars,
                        submitting, hpReqs, hpSeq, hpInterval, bcReqs, bcSeq, batches, submits, outcomeLog,
                   appStudents, confirmId, polled>>
    ELSE IF guardMessage # ""
    THEN /\ banner' = ErrBanner(guardMessage)
         /\ last' = [op |-> "submitInvalid"]
         /\ UNCHANGED <<now, pageActive, students, hpVars, sessionVars, guildFilter,
                        multiSelect, selectedIds, delta, note, submitting, hpReqs,
                        hpSeq, hpInterval, bcReqs, bcSeq, batches, submits, outcomeLog,
                   appStudents, confirmId, polled>>
    ELSE IF Len(selectedIds) = 0
    THEN \* the loop has no turn: the code after it runs at once
         /\ submits' = submits + 1
         /\ outcomeLog' = Append(outcomeLog, <<>>)
         /\ banner' = resultBanner(0, 0)
         /\ note' = <<>>
         /\ last' = [op |-> "submit", ids |-> <<>>, delta |-> delta,
                     before |-> 0, base |-> 0]
         /\ UNCHANGED <<now, pageActive, students, hpVars, sessionVars, guildFilter,
                        multiSelect, selectedIds, delta, submitting, hpReqs, hpSeq, hpInterval,
                        bcReqs, bcSeq, batches,
                   appStudents, confirmId, polled>>
    ELSE LET b0 == [ids |-> [i \in 1..Len(selectedIds) |-> normId(selectedIds[i])],
                    i |-> 1, ok |-> 0, fail |-> 0, before |-> 0, base |-> 0,
                    rows0 |-> hpRows, delta |-> delta, note |-> note,
                    sessionId |-> activeSessionId, outcomes |-> <<>>]
             r == applyTarget(b0, pending, hpRows, now)
         IN /\ submits' = submits + 1
            /\ outcomeLog' = outcomeLog
            /\ banner' = NoBanner
            /\ submitting' = TRUE
            /\ pending' = r.pending
            /\ hpRows' = r.hpRows
            /\ batches' = Append(batches, r.b)
            /\ last' = [op |-> "submit", ids |-> b0.ids, delta |-> delta,
                        before |-> r.b.before, base |-> r.b.base]
            /\ UNCHANGED <<now, pageActive, students, sessionVars, guildFilter,
                           multiSelect, selectedIds, delta, note, hpReqs, hpSeq, hpInterval,
                           bcReqs, bcSeq,
                   appStudents, confirmId, polled>>

\* String(activeSessionId).replace(/^["'...]+|["'...]+$/g, "").trim()
cleanSessionId(sessionId) ==
    trim(dropTrailing(dropLeading(sessionId, QuoteChars), QuoteChars))

\* the body of the POST that batch b is awaiting: submitHpDelta's arguments,
\* read from the variables of the render onSubmit was called in
writeArgs(b) ==
    [studentId |-> hpApi_normId(b.ids[b.i]), delta |-> b.delta, note |-> trim(b.note),
     sessionId |-> cleanSessionId(b.sessionId)]

removeAt(q, k) == [i \in 1..(Len(q) - 1) |-> IF i < k THEN q[i] ELSE q[i + 1]]

\* the catch block: the entry is dropped and the row put back
rollback(b, pend, rows) ==
    [pending |-> pendingDelete(pend, b.ids[b.i]),
     hpRows |-> restoreRow(rows, [studentId |-> b.ids[b.i], baseHP |-> b.base,
                                  currentHP |-> b.before])]

\* a pipeline that issues the write of a target again when it has failed
writeDone_retry(k, success) ==
    /\ k \in 1..Len(batches)
    /\ LET b == batches[k]
           id == b.ids[b.i]
           undone == IF success THEN [pending |-> pending, hpRows |-> hpRows]
                     ELSE rollback(b, pending, hpRows)
           b1 == [b EXCEPT !.ok = IF success THEN @ + 1 ELSE @,
                           !.fail = IF success THEN @ ELSE @ + 1,
                           !.outcomes = Append(@, success)]
       IN IF ~success \/ b.i < Len(b.ids)
          THEN LET r == applyTarget([b1 EXCEPT !.i = IF success THEN @ + 1 ELSE @], undone.pending,
                                    undone.hpRows, now)
               IN /\ pending' = r.pending
                  /\ hpRows' = r.hpRows
                  /\ batches' = [batches EXCEPT ![k] = r.b]
                  /\ last' = [op |-> "writeDone", id |-> id, success |-> success,
                              before |-> b.before, base |-> b.base,
                              finished |-> FALSE, ids |-> b.ids,
                              outcomes |-> b1.outcomes]
                  /\ UNCHANGED <<selectedIds, note, banner, submitting, outcomeLog,
                   appStudents, confirmId, polled>>
          ELSE /\ pending' = undone.pending
               /\ hpRows' = undone.hpRows
               /\ batches' = removeAt(batches, k)
               /\ banner' = resultBanner(b1.ok, b1.fail)
               /\ selectedIds' = <<>>
               /\ note' = <<>>
               /\ submitting' = FALSE
               /\ outcomeLog' = Append(outcomeLog, b1.outcomes)
               /\ last' = [op |-> "writeDone", id |-> id, success |-> success,
                           before |-> b.before, base |-> b.base,
                           finished |-> TRUE, ids |-> b.ids,
                           outcomes |-> b1.outcomes]
    /\ UNCHANGED <<now, pageActive, students, sessionVars, guildFilter, multiSelect,
                   delta, hpReqs, hpSeq, hpInterval, bcReqs, bcSeq, submits,
                   appStudents, confirmId, polled>>

\* a pipeline that drops the entry of a target when its write has succeeded
writeDone_clears(k, success) ==
    /\ k \in 1..Len(batches)
    /\ LET b == batches[k]
           id == b.ids[b.i]
           undone == IF success THEN [pending |-> pendingDelete(pending, id), hpRows |-> hpRows]
                     ELSE rollback(b, pending, hpRows)
           b1 == [b EXCEPT !.ok = IF success THEN @ + 1 ELSE @,
                           !.fail = IF success THEN @ ELSE @ + 1,
                           !.outcomes = Append(@, success)]
       IN IF b.i < Len(b.ids)
          THEN LET r == applyTarget([b1 EXCEPT !.i = @ + 1], undone.pending,
                                    undone.hpRows, now)
               IN /\ pending' = r.pending
                  /\ hpRows' = r.hpRows
                  /\ batches' = [batches EXCEPT ![k] = r.b]
                  /\ last' = [op |-> "writeDone", id |-> id, success |-> success,
                              before |-> b.before, base |-> b.base,
                              finished |-> FALSE, ids |-> b.ids,
                              outcomes |-> b1.outcomes]
                  /\ UNCHANGED <<selectedIds, note, banner, submitting, outcomeLog,
                   appStudents, confirmId, polled>>
          ELSE /\ pending' = undone.pending
               /\ hpRows' = undone.hpRows
               /\ batches' = removeAt(batches, k)
               /\ banner' = resultBanner(b1.ok, b1.fail)
               /\ selectedIds' = <<>>
               /\ note' = <<>>
               /\ submitting' = FALSE
               /\ outcomeLog' = Append(outcomeLog, b1.outcomes)
               /\ last' = [op |-> "writeDone", id |-> id, success |-> success,
                           before |-> b.before, base |-> b.base,
                           finished |-> TRUE, ids |-> b.ids,
                           outcomes |-> b1.outcomes]
    /\ UNCHANGED <<now, pageActive, students, sessionVars, guildFilter, multiSelect,
                   delta, hpReqs, hpSeq, hpInterval, bcReqs, bcSeq, submits,
                   appStudents, confirmId, polled>>

\* a pipeline whose last turn leaves the note and the submitting flag as they are
writeDone_noReset(k, success) ==
    /\ k \in 1..Len(batches)
    /\ LET b == batches[k]
           id == b.ids[b.i]
           undone == IF success THEN [pending |-> pending, hpRows |-> hpRows]
                     ELSE rollback(b, pending, hpRows)
           b1 == [b EXCEPT !.ok = IF success THEN @ + 1 ELSE @,
                           !.fail = IF success THEN @ ELSE @ + 1,
                           !.outcomes = Append(@, success)]
       IN IF b.i < Len(b.ids)
          THEN LET r == applyTarget([b1 EXCEPT !.i = @ + 1], undone.pending,
                                    undone.hpRows, now)
               IN /\ pending' = r.pending
                  /\ hpRows' = r.hpRows
                  /\ batches' = [batches EXCEPT ![k] = r.b]
                  /\ last' = [op |-> "writeDone", id |-> id, success |-> success,
                              before |-> b.before, base |-> b.base,
                              finished |-> FALSE, ids |-> b.ids,
                              outcomes |-> b1.outcomes]
                  /\ UNCHANGED <<selectedIds, note, banner, submitting, outcomeLog,
                   appStudents, confirmId, polled>>
          ELSE /\ pending' = undone.pending
               /\ hpRows' = undone.hpRows
               /\ batches' = removeAt(batches, k)
               /\ banner' = resultBanner(b1.ok, b1.fail)
               /\ selectedIds' = <<>>
               /\ note' = note
               /\ submitting' = submitting
               /\ outcomeLog' = Append(outcomeLog, b1.outcomes)
               /\ last' = [op |-> "writeDone", id |-> id, success |-> success,
                           before |-> b.before, base |-> b.base,
                           finished |-> TRUE, ids |-> b.ids,
                           outcomes |-> b1.outcomes]
    /\ UNCHANGED <<now, pageActive, students, sessionVars, guildFilter, multiSelect,
                   delta, hpReqs, hpSeq, hpInterval, bcReqs, bcSeq, submits,
                   appStudents, confirmId, polled>>

\* a pipeline whose every turn reads the session, the delta and the note afresh
writeDone_rereads(k, success) ==
    /\ k \in 1..Len(batches)
    /\ LET b == batches[k]
           id == b.ids[b.i]
           undone == IF success THEN [pending |-> pending, hpRows |-> hpRows]
                     ELSE rollback(b, pending, hpRows)
           b1 == [b EXCEPT !.ok = IF success THEN @ + 1 ELSE @,
                           !.fail = IF success THEN @ ELSE @ + 1,
                           !.outcomes = Append(@, success)]
       IN IF b.i < Len(b.ids)
          THEN LET r == applyTarget([b1 EXCEPT !.i = @ + 1, !.sessionId = activeSessionId,
                                                !.delta = delta, !.note = note],
                                    undone.pending,
                                    undone.hpRows, now)
               IN /\ pending' = r.pending
                  /\ hpRows' = r.hpRows
                  /\ batches' = [batches EXCEPT ![k] = r.b]
                  /\ last' = [op |-> "writeDone", id |-> id, success |-> success,
                              before |-> b.before, base |-> b.base,
                              finished |-> FALSE, ids |-> b.ids,
                              outcomes |-> b1.outcomes]
                  /\ UNCHANGED <<selectedIds, note, banner, submitting, outcomeLog,
                   appStudents, confirmId, polled>>
          ELSE /\ pending' = undone.pending
               /\ hpRows' = undone.hpRows
               /\ batches' = removeAt(batches, k)
               /\ banner' = resultBanner(b1.ok, b1.fail)
               /\ selectedIds' = <<>>
               /\ note' = <<>>
               /\ submitting' = FALSE
               /\ outcomeLog' = Append(outcomeLog, b1.outcomes)
               /\ last' = [op |-> "writeDone", id |-> id, success |-> success,
                           before |-> b.before, base |-> b.base,
                           finished |-> TRUE, ids |-> b.ids,
                           outcomes |-> b1.outcomes]
    /\ UNCHANGED <<now, pageActive, students, sessionVars, guildFilter, multiSelect,
                   delta, hpReqs, hpSeq, hpInterval, bcReqs, bcSeq, submits,
                   appStudents, confirmId, polled>>

\* onSubmit from the return of submitHpDelta (success: it resolved) to the next
\* await or to the end
writeDone(k, success) ==
    /\ k \in 1..Len(batches)
    /\ LET b == batches[k]
           id == b.ids[b.i]
           undone == IF success THEN [pending |-> pending, hpRows |-> hpRows]
                     ELSE rollback(b, pending, hpRows)
           b1 == [b EXCEPT !.ok = IF success THEN @ + 1 ELSE @,
                           !.fail = IF success THEN @ ELSE @ + 1,
                           !.outcomes = Append(@, success)]
       IN IF b.i < Len(b.ids)
          THEN LET r == applyTarget([b1 EXCEPT !.i = @ + 1], undone.pending,
                                    undone.hpRows, now)
               IN /\ pending' = r.pending
                  /\ hpRows' = r.hpRows
                  /\ batches' = [batches EXCEPT ![k] = r.b]
                  /\ last' = [op |-> "writeDone", id |-> id, success |-> success,
                              before |-> b.before, base |-> b.base,
                              finished |-> FALSE, ids |-> b.ids,
                              outcomes |-> b1.outcomes]
                  /\ UNCHANGED <<selectedIds, note, banner, submitting, outcomeLog,
                   appStudents, confirmId, polled>>
          ELSE /\ pending' = undone.pending
               /\ hpRows' = undone.hpRows
               /\ batches' = removeAt(batches, k)
               /\ banner' = resultBanner(b1.ok, b1.fail)
               /\ selectedIds' = <<>>
               /\ note' = <<>>
               /\ submitting' = FALSE
               /\ outcomeLog' = Append(outcomeLog, b1.outcomes)
               /\ last' = [op |-> "writeDone", id |-> id, success |-> success,
                           before |-> b.before, base |-> b.base,
                           finished |-> TRUE, ids |-> b.ids,
                           outcomes |-> b1.outcomes]
    /\ UNCHANGED <<now, pageActive, students, sessionVars, guildFilter, multiSelect,
                   delta, hpReqs, hpSeq, hpInterval, bcReqs, bcSeq, submits,
                   appStudents, confirmId, polled>>

----------------------------------------------------------------------------
(* Specifications *)

\* the model's bounds on the clock and on the requests and batches issued
TickUpTo(n) == now + ClockStep <= n * ClockStep /\ Tick

HpTimerUpTo(n) == hpSeq < n /\ HpTimer

BcTimerUpTo(n) == bcSeq < n /\ BcTimer

loadBattleControlUpTo(n, req, raw) == loadBattleControl(req, raw) /\ bcSeq' <= n

chooseHomeroomUpTo(n, hr) == chooseHomeroom(hr) /\ bcSeq' <= n

BecomeActiveUpTo(n, m) == hpSeq < n /\ bcSeq < m /\ BecomeActive

toggleSelectIdle(idRaw) == ~submitting /\ toggleSelect(idRaw)

onSubmitUpTo(n) == (busy \/ guardMessage # "" \/ submits < n) /\ onSubmit

Next ==
    \/ TickUpTo(MaxClock)
    \/ BecomeInactive
    \/ BecomeActiveUpTo(MaxHpReqs, MaxBcReqs)
    \/ LoadStudents
    \/ HpTimerUpTo(MaxHpReqs)
    \/ \E req \in hpReqs : HpFailed(req)
    \/ \E req \in hpReqs, raw \in HpResponses : loadHpFromApi(req, raw)
    \/ BcTimerUpTo(MaxBcReqs)
    \/ \E req \in bcReqs : BcFailed(req)
    \/ \E req \in bcReqs, raw \in BcResponses :
          loadBattleControlUpTo(MaxBcReqs, req, raw)
    \/ \E i \in 1..Len(battleRows) :
          chooseHomeroomUpTo(MaxBcReqs, battleRows[i].homeroom)
    \/ \E i \in 1..Len(students) : toggleSelect(students[i].id)
    \/ ToggleMultiSelect
    \/ clearSelection
    \/ \E g \in {"ALL", "G1", "G2"} : SetGuildFilter(g)
    \/ \E d \in DeltaChoices : SetDelta(d)
    \/ \E n \in NoteChoices : SetNote(n)
    \/ onSubmitUpTo(MaxSubmits)
    \/ \E k \in 1..Len(batches), success \in BOOLEAN : writeDone(k, success)
    \/ \E raw \in HpResponses : AppLoad(raw)
    \/ \E raw \in HpResponses : AppTick(raw)
    \/ \E v \in QuotedIds : setConfirmId(v)

Spec == Init /\ [][Next]_vars

\* The page in use: mounted active, a homeroom picked from the first
\* Battle_Control response, then the roster loaded.
InUse(row) ==
    /\ now = 0
    /\ pageActive = TRUE
    /\ students = Roster
    /\ battleRows = parseBc(<<row>>)
    /\ hpRows = <<>>
    /\ activeHomeroom = row.homeroom
    /\ activeSessionId = row.sessionId
    /\ guildFilter = "ALL"
    /\ multiSelect = TRUE
    /\ selectedIds = <<>>
    /\ delta = -1
    /\ note = <<>>
    /\ submitting = FALSE
    /\ banner = NoBanner
    /\ pending = NoPending
    /\ hpReqs = {[seq |-> 1, alive |-> TRUE]}
    /\ hpSeq = 1
    /\ hpInterval = HP_POLL_MS
    /\ bcReqs = {[seq |-> 2, alive |-> TRUE]}
    /\ bcSeq = 2
    /\ batches = <<>>
    /\ submits = 0
    /\ outcomeLog = <<>>
    /\ polled = hpById(<<>>)
    /\ appStudents = <<>>
    /\ confirmId = <<>>
    /\ last = [op |-> "loadStudents"]

InitSolo ==
    InUse([homeroom |-> <<"B">>, status |-> <<"a", "c", "t", "i", "v", "e">>,
           sessionId |-> <<"s", "3">>])

\* Homeroom B, of one student: two HP polls in flight around one batch.
NextPoll ==
    \/ TickUpTo(MaxClock)
    \/ HpTimerUpTo(MaxHpReqs)
    \/ \E req \in hpReqs : HpFailed(req)
    \/ \E req \in hpReqs, raw \in SoloResponses : loadHpFromApi(req, raw)
    \/ \E i \in 1..Len(students) : toggleSelect(students[i].id)
    \/ \E d \in DeltaChoices : SetDelta(d)
    \/ onSubmitUpTo(PollSubmits)
    \/ \E k \in 1..Len(batches), success \in BOOLEAN : writeDone(k, success)

SpecPoll == InitSolo /\ [][NextPoll]_vars

\* Homeroom B, of one student: two batches around the one HP poll in flight.
NextTwice ==
    \/ TickUpTo(MaxClock)
    \/ \E req \in hpReqs : HpFailed(req)
    \/ \E req \in hpReqs, raw \in SoloResponses : loadHpFromApi(req, raw)
    \/ \E i \in 1..Len(students) : toggleSelect(students[i].id)
    \/ \E d \in DeltaChoices : SetDelta(d)
    \/ onSubmitUpTo(MaxSubmits)
    \/ \E k \in 1..Len(batches), success \in BOOLEAN : writeDone(k, success)

SpecTwice == InitSolo /\ [][NextTwice]_vars

\* Homeroom A, of two students: one batch of up to two targets and the HP
\* polls around it.
InitPair == InUse([homeroom |-> <<"A">>, status |-> ACTIVE, sessionId |-> <<"s", "1">>])

NextPair ==
    \/ HpTimerUpTo(PairHpReqs)
    \/ \E req \in hpReqs : HpFailed(req)
    \/ \E req \in hpReqs, raw \in PairResponses : loadHpFromApi(req, raw)
    \/ \E i \in 1..Len(students) : toggleSelect(students[i].id)
    \/ onSubmitUpTo(PairSubmits)
    \/ \E k \in 1..Len(batches), success \in BOOLEAN : writeDone(k, success)

SpecPair == InitPair /\ [][NextPair]_vars

\* From the mount: the Battle_Control polls and the homeroom select.
NextSession ==
    \/ BcTimerUpTo(MaxBcReqs)
    \/ \E req \in bcReqs : BcFailed(req)
    \/ \E req \in bcReqs, raw \in SessionResponses :
          loadBattleControlUpTo(MaxBcReqs, req, raw)
    \/ \E i \in 1..Len(battleRows) :
          chooseHomeroomUpTo(MaxBcReqs, battleRows[i].homeroom)

SpecSession == Init /\ [][NextSession]_vars

\* From the mount to a batch: the session comes and goes with the
\* Battle_Control responses, the roster loads, a student is selected, and
\* onSubmit is called at any point on the way.
NextGuard ==
    \/ \E req \in bcReqs, raw \in GuardResponses :
          loadBattleControlUpTo(MaxBcReqs, req, raw)
    \/ LoadStudents
    \/ \E i \in 1..Len(students) : toggleSelect(students[i].id)
    \/ \E d \in DeltaChoices : SetDelta(d)
    \/ onSubmitUpTo(PollSubmits)
    \/ \E k \in 1..Len(batches), success \in BOOLEAN : writeDone(k, success)

SpecGuard == Init /\ [][NextGuard]_vars

\* Homeroom A in use: students are selected, a delta and a note are entered,
\* and the Battle_Control responses and the select change the session.
NextScope ==
    \/ BcTimerUpTo(MaxBcReqs)
    \/ \E req \in bcReqs, raw \in ScopeResponses :
          loadBattleControlUpTo(MaxBcReqs, req, raw)
    \/ \E i \in 1..Len(battleRows) :
          chooseHomeroomUpTo(MaxBcReqs, battleRows[i].homeroom)
    \/ \E i \in 1..Len(students) : toggleSelect(students[i].id)
    \/ \E d \in DeltaChoices : SetDelta(d)
    \/ \E n \in NoteChoices : SetNote(n)

SpecScope == InitPair /\ [][NextScope]_vars

\* Homeroom B in use: the page is blurred and focused again around the HP
\* polls and one batch.
NextActive ==
    \/ BecomeInactive
    \/ BecomeActiveUpTo(ActiveHpReqs, ActiveBcReqs)
    \/ HpTimerUpTo(ActiveHpReqs)
    \/ \E req \in hpReqs : HpFailed(req)
    \/ \E req \in hpReqs, raw \in SoloResponses : loadHpFromApi(req, raw)
    \/ \E i \in 1..Len(students) : toggleSelect(students[i].id)
    \/ onSubmitUpTo(PollSubmits)
    \/ \E k \in 1..Len(batches), success \in BOOLEAN : writeDone(k, success)

SpecActive == InitSolo /\ [][NextActive]_vars

\* Homeroom B in use: the cycles of the HP poller's interval over blur and
\* focus.
NextCycle ==
    \/ BecomeInactive
    \/ BecomeActiveUpTo(CycleHpReqs, ActiveBcReqs)
    \/ HpTimerUpTo(CycleHpReqs)
    \/ \E req \in hpReqs : HpFailed(req)
    \/ \E req \in hpReqs, raw \in SoloResponses : loadHpFromApi(req, raw)

SpecCycle == InitSolo /\ [][NextCycle]_vars

\* Homeroom B in use: the HP endpoint sends rows under raw ids of every
\* spelling.
NextCanon ==
    \/ HpTimerUpTo(CanonHpReqs)
    \/ \E req \in hpReqs : HpFailed(req)
    \/ \E req \in hpReqs, raw \in CanonResponses : loadHpFromApi(req, raw)

SpecCanon == InitSolo /\ [][NextCanon]_vars

\* Homeroom B in use: the HP endpoint sends one id in its spellings.
NextNamed ==
    \/ HpTimerUpTo(NamedHpReqs)
    \/ \E req \in hpReqs : HpFailed(req)
    \/ \E req \in hpReqs, raw \in NamedResponses : loadHpFromApi(req, raw)

SpecNamed == InitSolo /\ [][NextNamed]_vars

\* The battle page of homeroom B, the dashboard and the store's confirmation
\* field, each given the id of one student in its spellings.
NextCopies ==
    \/ HpTimerUpTo(CopiesHpReqs)
    \/ \E req \in hpReqs, raw \in QuotedResponses : loadHpFromApi(req, raw)
    \/ \E raw \in QuotedResponses : AppLoad(raw)
    \/ \E raw \in QuotedResponses : AppTick(raw)
    \/ \E v \in QuotedIds : setConfirmId(v)

SpecCopies == InitSolo /\ [][NextCopies]_vars

\* Homeroom A, of two students: one batch of up to two targets around the
\* one HP poll in flight.
NextBatch ==
    \/ \E req \in hpReqs, raw \in PairResponses : loadHpFromApi(req, raw)
    \/ \E i \in 1..Len(students) : toggleSelect(students[i].id)
    \/ onSubmitUpTo(PairSubmits)
    \/ \E k \in 1..Len(batches), success \in BOOLEAN : writeDone(k, success)

SpecBatch == InitPair /\ [][NextBatch]_vars

\* Homeroom A: the one HP poll in flight reports for one student the value a
\* batch expects and for the other another value.
NextPublish ==
    \/ \E req \in hpReqs, raw \in PublishResponses : loadHpFromApi(req, raw)
    \/ \E i \in 1..Len(students) : toggleSelect(students[i].id)
    \/ onSubmitUpTo(PairSubmits)
    \/ \E k \in 1..Len(batches), success \in BOOLEAN : writeDone(k, success)

SpecPublish == InitPair /\ [][NextPublish]_vars

\* The battle page of homeroom B and the dashboard, each polling a sheet
\* whose row was edited by hand.
NextParse ==
    \/ HpTimerUpTo(ParseHpReqs)
    \/ \E req \in hpReqs, raw \in ParseResponses : loadHpFromApi(req, raw)
    \/ \E raw \in ParseResponses : AppLoad(raw)
    \/ \E raw \in ParseResponses : AppTick(raw)

SpecParse == InitSolo /\ [][NextParse]_vars

\* Homeroom B, of one student: two batches around the one HP poll in flight,
\* which reports numbers out of range.
NextRange ==
    \/ TickUpTo(MaxClock)
    \/ \E req \in hpReqs : HpFailed(req)
    \/ \E req \in hpReqs, raw \in RangeResponses : loadHpFromApi(req, raw)
    \/ \E i \in 1..Len(students) : toggleSelect(students[i].id)
    \/ \E d \in DeltaChoices : SetDelta(d)
    \/ onSubmitUpTo(MaxSubmits)
    \/ \E k \in 1..Len(batches), success \in BOOLEAN : writeDone(k, success)

SpecRange == InitSolo /\ [][NextRange]_vars

\* Homeroom A, of two students: students are selected and a note is typed
\* before and during one batch.
NextDone ==
    \/ \E i \in 1..Len(students) : toggleSelect(students[i].id)
    \/ \E n \in NoteChoices : SetNote(n)
    \/ onSubmitUpTo(PairSubmits)
    \/ \E k \in 1..Len(batches), success \in BOOLEAN : writeDone(k, success)

SpecDone == InitPair /\ [][NextDone]_vars

\* A step of writeDone, told by the record it leaves in last: the steps of
\* this formula are the steps of writeDone, each of them changes last, and one
\* is possible exactly when a batch is in flight.
writeSettles ==
    \E k \in 1..Len(batches), success \in BOOLEAN :
        LET b == batches[k]
        IN last' = [op |-> "writeDone", id |-> b.ids[b.i], success |-> success,
                    before |-> b.before, base |-> b.base,
                    finished |-> ~(b.i < Len(b.ids)), ids |-> b.ids,
                    outcomes |-> Append(b.outcomes, success)]

\* every write settles: its fetch resolves or rejects, and the event loop then
\* runs the rest of onSubmit
SpecDoneFair == SpecDone /\ WF_last(writeSettles)

\* Homeroom A in use: one batch of up to two targets, while the
\* Battle_Control responses change the session and the operator changes the
\* delta and the note; the selection is made before the batch.
NextToken ==
    \/ \E req \in bcReqs, raw \in TokenResponses :
          loadBattleControlUpTo(MaxBcReqs, req, raw)
    \/ \E i \in 1..Len(students) : toggleSelectIdle(students[i].id)
    \/ \E d \in DeltaChoices : SetDelta(d)
    \/ \E n \in NoteChoices : SetNote(n)
    \/ onSubmitUpTo(PairSubmits)
    \/ \E k \in 1..Len(batches), success \in BOOLEAN : writeDone(k, success)

SpecToken == InitPair /\ [][NextToken]_vars

\* the clock advancing while the ledger holds an entry
TickHeld == DOMAIN pending # {} /\ TickUpTo(MaxClock)

\* Homeroom A in use: one batch and the HP polls, while the clock advances,
\* the page is blurred and focused, the session arbitration changes the scope,
\* and the operator selects one student of each homeroom and filters by guild.
NextFrame ==
    \/ TickHeld
    \/ BecomeInactive
    \/ BecomeActiveUpTo(FrameHpReqs, MaxBcReqs)
    \/ \E req \in hpReqs, raw \in FrameHpResponses : loadHpFromApi(req, raw)
    \/ \E req \in bcReqs, raw \in FrameBcResponses :
          loadBattleControlUpTo(MaxBcReqs, req, raw)
    \/ \E i \in 1..Len(battleRows) :
          chooseHomeroomUpTo(MaxBcReqs, battleRows[i].homeroom)
    \/ \E i \in {1, Len(students)} : toggleSelectIdle(students[i].id)
    \/ \E g \in {"ALL", "G1"} : SetGuildFilter(g)
    \/ onSubmitUpTo(PairSubmits)
    \/ \E k \in 1..Len(batches), success \in BOOLEAN : writeDone(k, success)

SpecFrame == InitPair /\ [][NextFrame]_vars

\* Homeroom A in use, of a roster with an id behind quotes, and homeroom B
\* ACTIVE beside it: the operator toggles tiles, switches the selection mode,
\* clears the selection, filters by guild and picks the other homeroom.
InitSelect ==
    /\ now = 0
    /\ pageActive = TRUE
    /\ students = SelectRoster
    /\ battleRows = parseBc(<< [homeroom |-> <<"A">>, status |-> ACTIVE,
                                sessionId |-> <<"s", "1">>],
                               [homeroom |-> <<"B">>, status |-> ACTIVE,
                                sessionId |-> <<"s", "3">>] >>)
    /\ hpRows = <<>>
    /\ activeHomeroom = <<"A">>
    /\ activeSessionId = <<"s", "1">>
    /\ guildFilter = "ALL"
    /\ multiSelect = TRUE
    /\ selectedIds = <<>>
    /\ delta = -1
    /\ note = <<>>
    /\ submitting = FALSE
    /\ banner = NoBanner
    /\ pending = NoPending
    /\ hpReqs = {[seq |-> 1, alive |-> TRUE]}
    /\ hpSeq = 1
    /\ hpInterval = HP_POLL_MS
    /\ bcReqs = {[seq |-> 2, alive |-> TRUE]}
    /\ bcSeq = 2
    /\ batches = <<>>
    /\ submits = 0
    /\ outcomeLog = <<>>
    /\ polled = hpById(<<>>)
    /\ appStudents = <<>>
    /\ confirmId = <<>>
    /\ last = [op |-> "loadStudents"]

toggleSelectUpTo(n, idRaw) == toggleSelect(idRaw) /\ Len(selectedIds') <= n

NextSelect ==
    \/ \E i \in 1..Len(students) : toggleSelectUpTo(MaxSelected, students[i].id)
    \/ ToggleMultiSelect
    \/ clearSelection
    \/ \E g \in {"ALL", "G1", "G2"} : SetGuildFilter(g)
    \/ \E i \in 1..Len(battleRows) :
          chooseHomeroomUpTo(MaxBcReqs, battleRows[i].homeroom)

SpecSelect == InitSelect /\ [][NextSelect]_vars

----------------------------------------------------------------------------
(* Properties *)

\* the canonical ids of a sequence of rows
idsIn(rows) == {normId(rows[i].studentId) : i \in 1..Len(rows)}

\* the student of homeroom B, as the roster, the tiles and the HP sheet spell it
E3 == <<"E", "3">>

DisplayIds == {<<"e", "3">>, <<" ", "e", "3">>, <<"E", "3">>, <<"e", "1">>}

\* C1: when the response of HP request K is applied right after the response
\* of a newer request K+1 (the page active all along), it leaves the displayed
\* value of every entity present in both responses as K+1 established it.
C1_StaleResponseRejected ==
    [][(/\ last.op = "hpApplied"
        /\ last'.op = "hpApplied"
        /\ last'.seq < last.seq)
       => \A id \in idsIn(last.parsed) \cap idsIn(last'.parsed) :
             getDisplayHp(id, pending', hpRows') = getDisplayHp(id, pending, hpRows)]_vars

\* C2: for every id, the displayed value is the pending entry's {expected,
\* base} when the ledger holds one for the canonical id, else the last row of
\* that id among the snapshot rows, else 20/20.
C2_DisplayMerge ==
    \A raw \in DisplayIds :
        LET id == normId(raw)
            d == getDisplayHp(raw, pending, hpRows)
            held == {i \in 1..Len(hpRows) : normId(hpRows[i].studentId) = id}
        IN IF id \in DOMAIN pending
           THEN d.currentHP = pending[id].expected /\ d.baseHP = pending[id].base
           ELSE IF held # {}
           THEN LET k == CHOOSE i \in held : \A j \in held : j <= i
                IN d.currentHP = hpRows[k].currentHP /\ d.baseHP = hpRows[k].baseHP
           ELSE d.currentHP = 20 /\ d.baseHP = 20

\* a pending entry is displayed while the snapshot rows hold no row of the
\* entity, and a snapshot row is displayed for an id spelt another way
C2_Witness ==
    /\ E3 \in DOMAIN pending
    /\ pending[E3].expected # 20
    /\ hpRows = <<>>
    /\ display(<<" ", "e", "3">>).currentHP = pending[E3].expected

\* the places of an id's rows in a parsed response
placesOf(parsed, id) == {i \in 1..Len(parsed) : normId(parsed[i].studentId) = id}

\* the last row of an id in a parsed response
lastRowOf(parsed, id) ==
    parsed[CHOOSE i \in placesOf(parsed, id) : \A j \in placesOf(parsed, id) : j <= i]

sameHp(a, b) == a.baseHP = b.baseHP /\ a.currentHP = b.currentHP

\* C5: when an applied poll response has a row for E whose currentHP equals
\* the pending entry's expected value, that poll deletes the entry, and E is
\* displayed afterwards as the polled row, its baseHP included.
C5_ResolvedOnMatch ==
    [][last'.op = "hpApplied"
       => \A id \in DOMAIN pending :
             (\E i \in placesOf(last'.parsed, id) :
                 last'.parsed[i].currentHP = pending[id].expected)
             => /\ id \notin DOMAIN pending'
                /\ sameHp(getDisplayHp(id, pending', hpRows'),
                          lastRowOf(last'.parsed, id))]_vars

\* a poll applied before any time has passed dropped the entry of E3, and E3
\* is displayed with the polled base of 30, not the entry's 20
C5_Witness ==
    /\ last.op = "hpApplied"
    /\ E3 \in DOMAIN last.dropped
    /\ now = last.dropped[E3].ts
    /\ last.dropped[E3].base = 20
    /\ display(E3).baseHP = 30
    /\ display(E3).currentHP = last.dropped[E3].expected

\* C6: a poll applied no later than PENDING_TTL_MS after the entry for E was
\* recorded, whose rows for E all report another value than the expected one,
\* leaves the entry in place and E displayed at the expected value; a poll
\* applied later than that with a row for E deletes the entry, match or not,
\* and E is displayed as polled.
C6_TtlEviction ==
    [][last'.op = "hpApplied"
       => \A id \in DOMAIN pending \cap idsIn(last'.parsed) :
             LET p == pending[id]
                 shown == getDisplayHp(id, pending', hpRows')
             IN /\ (/\ now - p.ts <= PENDING_TTL_MS
                    /\ \A i \in placesOf(last'.parsed, id) :
                          last'.parsed[i].currentHP # p.expected)
                   => /\ id \in DOMAIN pending'
                      /\ pending'[id] = p
                      /\ shown.currentHP = p.expected
                /\ now - p.ts > PENDING_TTL_MS
                   => /\ id \notin DOMAIN pending'
                      /\ sameHp(shown, lastRowOf(last'.parsed, id))]_vars

\* a poll applied after the TTL dropped the entry of E3 though it reported
\* another value than the expected one, and E3 is displayed as polled
C6_Witness ==
    /\ last.op = "hpApplied"
    /\ E3 \in DOMAIN last.dropped
    /\ now - last.dropped[E3].ts > PENDING_TTL_MS
    /\ display(E3).currentHP # last.dropped[E3].expected
    /\ sameHp(display(E3), lastRowOf(last.parsed, E3))

\* a poll applied exactly PENDING_TTL_MS after the entry was recorded, with
\* another value than the expected one, left the entry in place
C6_WitnessKept ==
    /\ last.op = "hpApplied"
    /\ E3 \in DOMAIN pending
    /\ now - pending[E3].ts = PENDING_TTL_MS
    /\ \E i \in placesOf(last.parsed, E3) :
          last.parsed[i].currentHP # pending[E3].expected
    /\ display(E3).currentHP = pending[E3].expected

\* what a step leaves displayed for an id
displayNext(id) == getDisplayHp(id, pending', hpRows')

\* C3 as stated: a second batch on an entity whose first batch is recorded and
\* not yet resolved is applied on top of the first batch's value, and a poll
\* response applied after both batches that reports another value for the
\* entity leaves its displayed value as it is.
C3_SecondBatchKept ==
    [][/\ (last'.op = "submit" /\ outcomeLog = <<(<<TRUE>>)>>)
          => \A id \in {last'.ids[1]} \cap DOMAIN pending :
                displayNext(id).currentHP =
                    Max(0, Min(pending[id].base, pending[id].expected + delta))
       /\ (last'.op = "hpApplied" /\ outcomeLog = <<(<<TRUE>>), (<<TRUE>>)>>)
          => \A id \in DOMAIN pending :
                (/\ placesOf(last'.parsed, id) # {}
                 /\ \A i \in placesOf(last'.parsed, id) :
                       last'.parsed[i].currentHP # pending[id].expected)
                => displayNext(id) = display(id)]_vars

\* C3, amended: as above, for a poll response applied no later than
\* PENDING_TTL_MS after the second batch recorded its value.
C3_SecondBatchKeptWithinTtl ==
    [][/\ (last'.op = "submit" /\ outcomeLog = <<(<<TRUE>>)>>)
          => \A id \in {last'.ids[1]} \cap DOMAIN pending :
                displayNext(id).currentHP =
                    Max(0, Min(pending[id].base, pending[id].expected + delta))
       /\ (last'.op = "hpApplied" /\ outcomeLog = <<(<<TRUE>>), (<<TRUE>>)>>)
          => \A id \in DOMAIN pending :
                (/\ now - pending[id].ts <= PENDING_TTL_MS
                 /\ placesOf(last'.parsed, id) # {}
                 /\ \A i \in placesOf(last'.parsed, id) :
                       last'.parsed[i].currentHP # pending[id].expected)
                => displayNext(id) = display(id)]_vars

\* 20 -5 +2: both batches done, then the one poll in flight since before the
\* first batch reports 15 and the display stays at 17 of 20
C3_Witness ==
    /\ last.op = "hpApplied"
    /\ outcomeLog = <<(<<TRUE>>), (<<TRUE>>)>>
    /\ \E i \in placesOf(last.parsed, E3) : last.parsed[i].currentHP = 15
    /\ E3 \in DOMAIN pending
    /\ display(E3).currentHP = 17
    /\ display(E3).baseHP = 20

\* C7: the value a target's turn records in the ledger and shows is
\* max(0, min(before.max, before.current + delta)), within [0, before.max],
\* before being what was displayed for the target.
C7_Clamped ==
    [][(last'.op = "submit" /\ last'.ids # <<>>)
       => LET id == last'.ids[1]
              before == display(id)
          IN /\ id \in DOMAIN pending'
             /\ pending'[id].expected =
                    Max(0, Min(before.baseHP, before.currentHP + delta))
             /\ pending'[id].expected \in 0..before.baseHP
             /\ displayNext(id).currentHP = pending'[id].expected
             /\ displayNext(id).baseHP = before.baseHP]_vars

\* 1 of 20 and a delta of -5 give 0
C7_Witness ==
    /\ last.op = "submit"
    /\ last.before = 1
    /\ last.base = 20
    /\ last.delta = -5
    /\ display(E3).currentHP = 0

\* 19 of 20 and a delta of 2 give 20
C7_WitnessCeiling ==
    /\ last.op = "submit"
    /\ last.before = 19
    /\ last.base = 20
    /\ last.delta = 2
    /\ display(E3).currentHP = 20

\* C9: at most one batch is in flight, and a call of onSubmit while one is
\* in flight records nothing, changes no row and issues no write.
C9_OneBatchInFlight ==
    /\ [](Len(batches) <= 1 /\ (submitting <=> Len(batches) = 1))
    /\ [][(submitting /\ last'.op \in {"submit", "submitBusy", "submitInvalid"})
          => /\ last'.op = "submitBusy"
             /\ UNCHANGED <<pending, hpRows, batches, selectedIds, banner,
                            submitting>>]_vars

C9_Witness ==
    /\ last.op = "submitBusy"
    /\ submitting
    /\ Len(batches) = 1
    /\ E3 \in DOMAIN pending

\* how many of a batch's writes went one way
countOf(q, v) == Cardinality({i \in 1..Len(q) : q[i] = v})

\* C4: when the write of a target returns, a success leaves the target's entry
\* and displayed value as they are, a failure removes the entry and puts the
\* displayed value back to the one read before the mutation; neither touches
\* the other targets, the next target is taken up either way, and the banner
\* after the last one counts the successes and the failures.
C4_PartialFailure ==
    [][last'.op = "writeDone"
       => LET id == last'.id
              n == Len(last'.outcomes)
          IN /\ last'.success
                => /\ id \in DOMAIN pending => (id \in DOMAIN pending'
                                                 /\ pending'[id] = pending[id])
                   /\ displayNext(id) = display(id)
             /\ ~last'.success
                => /\ id \notin DOMAIN pending'
                   /\ displayNext(id).currentHP = last'.before
                   /\ displayNext(id).baseHP = last'.base
             /\ \A i \in 1..(n - 1) :
                   displayNext(last'.ids[i]) = display(last'.ids[i])
             /\ ~last'.finished
                => /\ n < Len(last'.ids)
                   /\ Len(batches') = 1
                   /\ batches'[1].i = n + 1
                   /\ last'.ids[n + 1] \in DOMAIN pending'
             /\ last'.finished
                => /\ n = Len(last'.ids)
                   /\ banner'.ok = countOf(last'.outcomes, TRUE)
                   /\ banner'.fail = countOf(last'.outcomes, FALSE)
                   /\ batches' = <<>>]_vars

\* a failed write whose target has no row left to put back: a poll response
\* without the target's row was applied while the write was awaited
C4_RowGone ==
    /\ last.op = "writeDone"
    /\ ~last.success
    /\ findIndex(hpRows, last.id) = 0
    /\ display(last.id).currentHP # last.before

\* a failed write whose target has two rows, of which the first is put back
C4_RowTwice ==
    /\ last.op = "writeDone"
    /\ ~last.success
    /\ Cardinality(placesOf(hpRows, last.id)) = 2
    /\ display(last.id).currentHP # last.before

\* C8: a call of onSubmit without a homeroom or session, without a selection,
\* or with a delta that is zero or not a finite number, is rejected: an error
\* banner is set and no entry, row, batch, write or selection changes.
C8_GuardsReject ==
    [][(/\ last'.op \in {"submit", "submitInvalid"}
        /\ \/ activeHomeroom = <<>>
           \/ activeSessionId = <<>>
           \/ selectedIds = <<>>
           \/ delta \notin Int
           \/ delta = 0)
       => /\ last'.op = "submitInvalid"
          /\ banner'.type = "err"
          /\ UNCHANGED <<pending, hpRows, batches, submits, selectedIds,
                         submitting>>]_vars

C8_Witness ==
    /\ last.op = "submitInvalid"
    /\ activeHomeroom = <<>>
    /\ activeSessionId = <<>>
    /\ banner = ErrBanner("Pick an ACTIVE homeroom.")

C8_WitnessSelection ==
    /\ last.op = "submitInvalid"
    /\ activeHomeroom # <<>>
    /\ activeSessionId # <<>>
    /\ selectedIds = <<>>
    /\ banner = ErrBanner("Select at least 1 student.")

\* C10: a Battle_Control response that lists the selected homeroom among its
\* ACTIVE rows, at whatever place, leaves the selection on that homeroom and
\* sets the session id to that of an ACTIVE row of the homeroom.
C10_SessionStability ==
    [][last'.op = "bcApplied"
       => LET rows == activesOf(last'.parsed)
              mine == {i \in 1..Len(rows) : rows[i].homeroom = activeHomeroom}
          IN mine # {}
             => /\ activeHomeroom' = activeHomeroom
                /\ \E i \in mine : activeSessionId' = rows[i].sessionId]_vars

\* selection A with session s1, then a response listing B before A with
\* session s2
C10_Witness ==
    /\ last.op = "bcApplied"
    /\ last.from = <<"A">>
    /\ Len(last.parsed) = 2
    /\ isActive(last.parsed[1]) /\ last.parsed[1].homeroom = <<"B">>
    /\ isActive(last.parsed[2]) /\ last.parsed[2].homeroom = <<"A">>
    /\ activeHomeroom = <<"A">>
    /\ activeSessionId = <<"s", "2">>

\* C11: a Battle_Control response with ACTIVE rows, none of them of the
\* selected homeroom, moves the selection to the first ACTIVE row in the sort
\* order of the homeroom select, whatever the order of the rows fetched.
C11_FallbackSorted ==
    [][last'.op = "bcApplied"
       => LET rows == activesOf(last'.parsed)
          IN (/\ rows # <<>>
              /\ \A i \in 1..Len(rows) : rows[i].homeroom # activeHomeroom)
             => activeHomeroom' = sortByHomeroom(rows)[1].homeroom]_vars

\* C12: a Battle_Control response without a row whose status is ACTIVE in any
\* case empties the homeroom and the session id; while they are empty a call
\* of onSubmit starts no batch and, unless one is in flight, sets the
\* "Pick an ACTIVE homeroom." banner; only a later response or the select
\* makes them non-empty again.
C12_NoActiveSession ==
    /\ [](activeHomeroom = <<>> <=> activeSessionId = <<>>)
    /\ [][/\ (/\ last'.op = "bcApplied"
              /\ \A i \in 1..Len(last'.parsed) :
                    toUpperCase(last'.parsed[i].status) # ACTIVE)
             => (activeHomeroom' = <<>> /\ activeSessionId' = <<>>)
          /\ (/\ last'.op \in {"submit", "submitBusy", "submitInvalid"}
              /\ activeHomeroom = <<>>)
             => /\ last'.op # "submit"
                /\ UNCHANGED <<pending, hpRows, batches, submits>>
                /\ ~submitting => banner' = ErrBanner("Pick an ACTIVE homeroom.")
          /\ (activeHomeroom = <<>> /\ activeHomeroom' # <<>>)
             => last'.op \in {"bcApplied", "chooseHomeroom"}]_vars

\* after a batch in homeroom B the sheet lists B as not ACTIVE, and onSubmit
\* is rejected
C12_Witness ==
    /\ last.op = "submitInvalid"
    /\ outcomeLog # <<>>
    /\ battleRows # <<>>
    /\ activeHomeroom = <<>>
    /\ activeSessionId = <<>>
    /\ banner = ErrBanner("Pick an ACTIVE homeroom.")

\* C13: a step that changes the homeroom empties the selection and the note,
\* puts the delta back to -1 and clears the banner; a Battle_Control response
\* that changes the session id of the same homeroom leaves selection, note and
\* delta as they are.
C13_ScopeReset ==
    [][/\ activeHomeroom' # activeHomeroom
          => /\ selectedIds' = <<>>
             /\ note' = <<>>
             /\ delta' = -1
             /\ banner' = NoBanner
       /\ (/\ last'.op = "bcApplied"
           /\ activeHomeroom' = activeHomeroom
           /\ activeSessionId' # activeSessionId)
          => UNCHANGED <<selectedIds, note, delta>>]_vars

\* the session id of homeroom A went from s1 to s2 under a selection, a note
\* and a delta
C13_Witness ==
    /\ last.op = "bcApplied"
    /\ activeHomeroom = <<"A">>
    /\ activeSessionId = <<"s", "2">>
    /\ Len(selectedIds) = 2
    /\ note # <<>>
    /\ delta = -5

\* the homeroom went from A to B
C13_WitnessReset ==
    /\ last.op \in {"bcApplied", "chooseHomeroom"}
    /\ last.from = <<"A">>
    /\ activeHomeroom = <<"B">>
    /\ selectedIds = <<>>
    /\ note = <<>>
    /\ delta = -1

\* C15: a Battle_Control response that parses to no valid row leaves the
\* homeroom, the session id, the selection and the note as they were.
C15_MalformedKeepsState ==
    [][(last'.op = "bcApplied" /\ last'.parsed = <<>>)
       => UNCHANGED <<activeHomeroom, activeSessionId, selectedIds, note>>]_vars

\* C14: an HP poll that fails leaves the rows held, the ledger, the displayed
\* values and the banner as they are and issues no request.
C14_PollFailureSilent ==
    [][last'.op = "hpFailed"
       => /\ UNCHANGED <<hpRows, pending, banner, hpSeq>>
          /\ hpReqs' \subseteq hpReqs
          /\ \A id \in DisplayIds : displayNext(id) = display(id)]_vars

C14_Witness ==
    /\ last.op = "hpFailed"
    /\ E3 \in DOMAIN pending
    /\ hpRows # <<>>
    /\ hpReqs = {}

\* C16: HP poll requests are issued only while the page is active; when the
\* page becomes inactive the interval is cleared and every request in flight
\* is marked dead for good, and the response of a dead request changes
\* neither the rows held nor the ledger.
C16_PollerGating ==
    /\ [](~pageActive => (hpInterval = 0 /\ \A req \in hpReqs : ~req.alive))
    /\ [][/\ hpSeq' # hpSeq => pageActive'
          /\ \A req \in hpReqs : ~req.alive =>
                \A other \in hpReqs' : other.seq = req.seq => ~other.alive
          /\ \A req \in hpReqs \ hpReqs' : ~req.alive =>
                (UNCHANGED <<hpRows, pending>> /\ last'.op # "hpApplied")]_vars

C16_Witness ==
    /\ last.op = "hpStale"
    /\ pageActive
    /\ E3 \in DOMAIN pending
    /\ hpRows # <<>>
    /\ \E req \in hpReqs : req.alive

\* C17: every transition of the page from inactive to active issues exactly
\* one HP poll request in the same step and sets the interval that issues
\* the later ones.
C17_FetchOnActivation ==
    /\ [](pageActive => ENABLED HpTimer)
    /\ [][(~pageActive /\ pageActive')
          => /\ hpSeq' = hpSeq + 1
             /\ hpReqs' \ hpReqs = {[seq |-> hpSeq + 1, alive |-> TRUE]}
             /\ hpReqs \subseteq hpReqs'
             /\ hpInterval' # 0]_vars

C17_Witness ==
    /\ last.op = "hpRequest"
    /\ last.seq = 3
    /\ \E req \in hpReqs : req.seq = 2 /\ req.alive
    /\ \E req \in hpReqs : req.seq = 1 /\ ~req.alive

C19_Idempotent ==
    \A i \in 1..Len(hpRows) : normId(hpRows[i].studentId) = hpRows[i].studentId

\* the id of the one row of the response applied last, as sent
rawIdOf(l) == l.raw[1].studentId

\* " a-1 ", "A1" and "A--1" with an em dash
HumanEqualIds == {<<" ", "a", "-", "1", " ">>, <<"A", "1">>, <<"A", "emdash", "1">>}

\* the spellings with a dash of some kind
DashedIds == NamedIds \ {<<"A", "1">>}

\* C20 as stated: " a-1 ", "A1" and "A--1" with an em dash come out as one
\* EntityId: rows sent under two of them are stored under the same id.
C20_HumanEqual ==
    [][(/\ last.op = "hpApplied" /\ rawIdOf(last) \in HumanEqualIds
        /\ last'.op = "hpApplied" /\ rawIdOf(last') \in HumanEqualIds)
       => /\ Len(hpRows) = 1 /\ Len(hpRows') = 1
          /\ hpRows'[1].studentId = hpRows[1].studentId]_vars

\* C20 amended: the spellings that differ in case, outer quotes, white space
\* and the kind of dash come out as the one EntityId A-1, and the spelling
\* without a dash comes out as A1, another EntityId.
C20_DashKept ==
    /\ [][(/\ last.op = "hpApplied" /\ rawIdOf(last) \in DashedIds
           /\ last'.op = "hpApplied" /\ rawIdOf(last') \in DashedIds)
          => /\ Len(hpRows) = 1 /\ Len(hpRows') = 1
             /\ hpRows'[1].studentId = hpRows[1].studentId
             /\ hpRows'[1].studentId = <<"A", "-", "1">>]_vars
    /\ []((last.op = "hpApplied" /\ rawIdOf(last) = <<"A", "1">>)
          => (Len(hpRows) = 1 /\ hpRows[1].studentId = <<"A", "1">>))

C20_Witness ==
    /\ last.op = "hpApplied"
    /\ last.seq = 1
    /\ rawIdOf(last) = <<"A", "emdash", "1">>
    /\ hpRows = <<[studentId |-> <<"A", "-", "1">>, baseHP |-> 20, currentHP |-> 15]>>
    /\ hpReqs = {}
    /\ hpSeq = 2

\* the ids under which the battle page stores the rows of a response
battleKeys(raw) == [i \in 1..Len(parseHp(raw)) |-> parseHp(raw)[i].studentId]

\* C21: the four canonicalizers agree: the dashboard keys the rows of a
\* response as the battle page does and finds a student's row by the same
\* key, and the store accepts a typed id exactly when the battle page's
\* canonicalizer equates it with the student's id.
C21_OneCanonicalizer ==
    /\ last.op \in {"appLoad", "appTick"} => last.keys = battleKeys(last.raw)
    /\ \A i \in 1..Len(appStudents) :
          App_normId(appStudents[i].id) = normId(appStudents[i].id)
    /\ \A i \in 1..Len(Roster) :
          confirmOk(Roster[i]) <=> normId(confirmId) = normId(Roster[i].id)

\* C22: when the write for a target fails right after the mutation was
\* applied, the target's pending entry is gone and the target is displayed
\* with the value a poll reported for it last.
C22_RollbackToPolled ==
    [][(/\ last.op = "submit"
        /\ last'.op = "writeDone" /\ ~last'.success
        /\ last'.id \in DOMAIN polled)
       => /\ last'.id \notin DOMAIN pending'
          /\ displayNext(last'.id).currentHP = polled[last'.id].currentHP
          /\ displayNext(last'.id).baseHP = polled[last'.id].baseHP]_vars

\* C23: a first write for the student of homeroom B has succeeded, a second one
\* has just failed and been rolled back, all within the TTL, and no poll has
\* been applied since the first write: the poll response applied next, of a
\* request issued before both writes, leaves the displayed value as the
\* acknowledged write set it.
C23_NoSnapBack ==
    [][(/\ outcomeLog = <<(<<TRUE>>), (<<FALSE>>)>>
        /\ last.op = "writeDone"
        /\ now = 0
        /\ polled = hpById(<<>>)
        /\ last'.op = "hpApplied")
       => displayNext(E3).currentHP = display(E3).currentHP]_vars

\* C24: an entry of the ledger older than the TTL is not displayed: the
\* entity is shown with the value polled last, or with the default.
C24_ExpiredNotDisplayed ==
    \A id \in DOMAIN pending :
        expired(pending[id], now)
        => display(id) = IF id \in DOMAIN polled THEN polled[id]
                         ELSE [studentId |-> id, baseHP |-> DEFAULT_HP,
                               currentHP |-> DEFAULT_HP]

\* C25: a poll response applied later than the TTL after an entry was recorded
\* leaves no such entry in the ledger.
C25_NoStuckOverride ==
    [][last'.op = "hpApplied"
       => \A id \in DOMAIN pending :
             now - pending[id].ts > PENDING_TTL_MS => id \notin DOMAIN pending']_vars

\* C26: the value a target's mutation starts from is the value displayed for
\* the target at the moment the target is taken up.
C26_FreshRead ==
    [][((last'.op = "writeDone" /\ ~last'.finished) \/ (last'.op = "submit" /\ batches' # <<>>))
       => LET b == batches'[Len(batches')]
          IN /\ b.before = display(b.ids[b.i]).currentHP
             /\ b.base = display(b.ids[b.i]).baseHP]_vars

\* C27: a batch issues the writes of its targets one at a time in the order
\* of the selection: one batch at most awaits a write, the write of target
\* i + 1 is issued when the write of target i has returned, whether it
\* succeeded or failed, and the batch ends after as many writes as targets.
C27_SerializedWrites ==
    /\ [](Len(batches) <= 1)
    /\ [](\A k \in 1..Len(batches) :
             /\ batches[k].i \in 1..Len(batches[k].ids)
             /\ Len(batches[k].outcomes) = batches[k].i - 1)
    /\ [][(last'.op = "submit" /\ last'.ids # <<>>)
          => /\ batches = <<>>
             /\ Len(batches') = 1
             /\ batches'[1].i = 1
             /\ batches'[1].ids = [j \in 1..Len(selectedIds) |-> normId(selectedIds[j])]]_vars
    /\ [][last'.op = "writeDone"
          => /\ Len(batches) = 1
             /\ last'.id = batches[1].ids[batches[1].i]
             /\ IF last'.finished
                THEN /\ batches' = <<>>
                     /\ Len(last'.outcomes) = Len(last'.ids)
                ELSE /\ Len(batches') = 1
                     /\ batches'[1].i = batches[1].i + 1
                     /\ batches'[1].ids = batches[1].ids]_vars

C27_Witness ==
    /\ last.op = "writeDone"
    /\ last.finished
    /\ last.ids = <<(<<"E", "2">>), (<<"E", "1">>)>>
    /\ last.id = <<"E", "1">>
    /\ last.outcomes = <<FALSE, TRUE>>
    /\ batches = <<>>

\* C28: taking up a target records its mutation in the ledger under the
\* target's canonical id, in place of the entry the id had: expected value,
\* base and time are those of this mutation, and the other entries stay.
C28_NewestIntentWins ==
    /\ [](\A id \in DOMAIN pending : normId(id) = id)
    /\ [][((last'.op = "writeDone" /\ ~last'.finished)
           \/ (last'.op = "submit" /\ last'.ids # <<>>))
          => LET b == batches'[Len(batches')]
                 id == b.ids[b.i]
             IN /\ id \in DOMAIN pending'
                /\ pending'[id] = [expected |-> Max(0, Min(b.base, b.before + b.delta)),
                                   base |-> b.base, ts |-> now]
                /\ last'.op = "submit"
                   => /\ DOMAIN pending' = DOMAIN pending \cup {id}
                      /\ \A other \in DOMAIN pending \ {id} :
                            pending'[other] = pending[other]]_vars

C28_Witness ==
    /\ last.op = "submit"
    /\ outcomeLog = <<(<<TRUE>>)>>
    /\ hpReqs # {}
    /\ now = ClockStep
    /\ pending = (E3 :> [expected |-> 17, base |-> 20, ts |-> ClockStep])

\* C29: a write that succeeds leaves the entry of its target as it is; an
\* entry leaves the ledger only when a poll response with a row of its id is
\* applied that matches its expected value or comes after its TTL, or when a
\* write for its id fails.
C29_SuccessKeepsEntry ==
    /\ [][(last'.op = "writeDone" /\ last'.success /\ last'.id \in DOMAIN pending)
          => /\ last'.id \in DOMAIN pending'
             /\ pending'[last'.id] = pending[last'.id]]_vars
    /\ [][\A id \in DOMAIN pending \ DOMAIN pending' :
             \/ /\ last'.op = "hpApplied"
                /\ \E i \in 1..Len(last'.parsed) :
                      /\ normId(last'.parsed[i].studentId) = id
                      /\ \/ last'.parsed[i].currentHP = pending[id].expected
                         \/ now - pending[id].ts > PENDING_TTL_MS
             \/ /\ last'.op = "writeDone"
                /\ ~last'.success
                /\ last'.id = id]_vars

C29_Witness ==
    /\ last.op = "writeDone"
    /\ last.success
    /\ last.finished
    /\ now = ClockStep
    /\ pending = (E3 :> [expected |-> 19, base |-> 20, ts |-> 0])
    /\ ~submitting
    /\ display(E3).currentHP = 19

\* C30: the step that applies a poll response reconciles the ledger with every
\* row of the response and publishes all rows: an entry stays exactly when it
\* is within its TTL and no row of its id reports its expected value, and a
\* row whose id has an entry afterwards is published with the entry's values.
C30_ReconcileThenPublish ==
    [][last'.op = "hpApplied"
       => /\ Len(hpRows') = Len(last'.parsed)
          /\ DOMAIN pending' \subseteq DOMAIN pending
          /\ \A id \in DOMAIN pending :
                LET rowsOfId == placesOf(last'.parsed, id)
                    resolved == \E i \in rowsOfId :
                                   \/ now - pending[id].ts > PENDING_TTL_MS
                                   \/ last'.parsed[i].currentHP = pending[id].expected
                IN /\ id \in DOMAIN pending' <=> ~resolved
                   /\ id \in DOMAIN pending' => pending'[id] = pending[id]
          /\ \A i \in 1..Len(hpRows') :
                LET id == normId(last'.parsed[i].studentId)
                IN /\ normId(hpRows'[i].studentId) = id
                   /\ id \in DOMAIN pending'
                      => /\ hpRows'[i].currentHP = pending'[id].expected
                         /\ hpRows'[i].baseHP = pending'[id].base
                   /\ id \notin DOMAIN pending
                      => /\ hpRows'[i].currentHP = last'.parsed[i].currentHP
                         /\ hpRows'[i].baseHP = last'.parsed[i].baseHP]_vars

C30_Witness ==
    /\ last.op = "hpApplied"
    /\ Len(last.parsed) = 2
    /\ DOMAIN last.dropped = {<<"E", "1">>}
    /\ DOMAIN pending = {<<"E", "2">>}
    /\ hpRows = << [studentId |-> <<"E", "1">>, baseHP |-> 20, currentHP |-> 19],
                   [studentId |-> <<"E", "2">>, baseHP |-> 20, currentHP |-> 19] >>
    /\ polled[<<"E", "2">>].currentHP = 15

----------------------------------------------------------------------------
(* C31: every row accepted from an HP poll, by the battle page's parse and   *)
(* by the dashboard's fetchHpMap, has a canonical id that is not empty, a    *)
(* baseHP of at least 1 and a currentHP between 0 and baseHP, whatever the   *)
(* store sent, and the rows dropped are those whose id canonicalizes to      *)
(* empty.                                                                    *)

\* the rows of a response whose id does not canonicalize to empty
keptPlaces(raw) == {i \in 1..Len(raw) : normId(raw[i].studentId) # <<>>}

\* the battle page's part of it
C31_BattleParse ==
    last.op = "hpApplied"
    => /\ \A i \in 1..Len(last.parsed) :
             /\ last.parsed[i].studentId # <<>>
             /\ last.parsed[i].baseHP >= 1
             /\ 0 <= last.parsed[i].currentHP
             /\ last.parsed[i].currentHP <= last.parsed[i].baseHP
       /\ Len(last.parsed) = Cardinality(keptPlaces(last.raw))

C31_DefensiveParse ==
    /\ C31_BattleParse
    /\ last.op \in {"appLoad", "appTick"}
       => LET hpMap == fetchHpMap(last.raw)
          IN /\ \A i \in 1..Len(hpMap) :
                   /\ normId(hpMap[i].id) # <<>>
                   /\ hpMap[i].baseHP.k = "num"
                   /\ hpMap[i].currentHP.k = "num"
                   /\ hpMap[i].baseHP.v >= 1
                   /\ 0 <= hpMap[i].currentHP.v
                   /\ hpMap[i].currentHP.v <= hpMap[i].baseHP.v
             /\ Len(hpMap) = Cardinality(keptPlaces(last.raw))

----------------------------------------------------------------------------
(* C32: the maximum displayed for an entity is the maximum of the last poll  *)
(* row applied for it, and the default for an entity no poll has reported;   *)
(* a pending entry recorded under an older maximum does not keep it on       *)
(* display once a poll has reported another.                                 *)
C32_MaxFollowsStore ==
    \A id \in DOMAIN polled \cup DOMAIN pending :
        display(id).baseHP = IF id \in DOMAIN polled THEN polled[id].baseHP
                             ELSE DEFAULT_HP

----------------------------------------------------------------------------
(* C33: in every reachable state the value displayed for every entity, of    *)
(* the roster, of the rows held or of the ledger, has a baseHP of at least 1 *)
(* and a currentHP between 0 and baseHP.                                     *)

\* the ids of the roster
rosterIds == {normId(Roster[i].id) : i \in 1..Len(Roster)}

C33_DisplayRange ==
    \A id \in rosterIds \cup idsIn(hpRows) \cup DOMAIN pending :
        /\ display(id).baseHP >= 1
        /\ 0 <= display(id).currentHP
        /\ display(id).currentHP <= display(id).baseHP

\* a first batch was rolled back, a second one acknowledged, and after the TTL
\* a poll reporting 0 for the maximum and -3 for the value evicted the entry
C33_Witness ==
    /\ outcomeLog = <<(<<FALSE>>), (<<TRUE>>)>>
    /\ last.op = "hpApplied"
    /\ last.raw = <<[studentId |-> <<"E", "3">>, baseHP |-> Num(0), currentHP |-> Num(-3)]>>
    /\ E3 \in DOMAIN last.dropped
    /\ expired(last.dropped[E3], now)
    /\ display(E3).baseHP = 1
    /\ display(E3).currentHP = 0

----------------------------------------------------------------------------
(* C34: every onSubmit that passes the guards comes to its end, and at its   *)
(* end the submitting flag is false, the selection is empty, the note is     *)
(* cleared and the successes and failures counted add up to the number of    *)
(* targets, however the writes went.                                         *)
C34_BatchCompletion ==
    /\ [][(last'.op = "writeDone" /\ last'.finished)
          => /\ submitting' = FALSE
             /\ selectedIds' = <<>>
             /\ note' = <<>>
             /\ banner'.ok + banner'.fail = Len(last'.ids)
             /\ batches' = <<>>]_vars
    /\ [][(last'.op = "submit") => (submitting' /\ batches' # <<>>)]_vars
    /\ (submitting ~> ~submitting)

\* a batch of two targets has ended with one write failed and one
\* acknowledged, a note having been typed while it ran
C34_Witness ==
    /\ last.op = "writeDone"
    /\ last.finished
    /\ last.ids = <<<<"E", "1">>, <<"E", "2">>>>
    /\ last.outcomes = <<FALSE, TRUE>>
    /\ banner.ok = 1
    /\ banner.fail = 1
    /\ ~submitting
    /\ note = <<>>

----------------------------------------------------------------------------
(* C35: every write of a batch carries the session id, its surrounding       *)
(* quotes stripped, the delta and the (trimmed) note of the moment onSubmit  *)
(* was called, whatever the session arbitration and the operator change      *)
(* while the batch is in flight.                                             *)

\* the session, delta and note of a write
tokenOf(w) == [sessionId |-> w.sessionId, delta |-> w.delta, note |-> w.note]

C35_TokenFixed ==
    /\ [][(last'.op = "submit" /\ batches' # <<>>)
          => tokenOf(writeArgs(batches'[Len(batches')])) =
                [sessionId |-> cleanSessionId(activeSessionId), delta |-> delta,
                 note |-> trim(note)]]_vars
    /\ [][(batches # <<>> /\ batches' # <<>> /\ submits' = submits)
          => tokenOf(writeArgs(batches'[1])) = tokenOf(writeArgs(batches[1]))]_vars

\* the second write of a batch is in flight under the session, delta and note
\* of the submission, after the session was rotated and the delta and the
\* note were changed
C35_Witness ==
    /\ batches # <<>>
    /\ batches[1].i = 2
    /\ tokenOf(writeArgs(batches[1])) =
          [sessionId |-> <<"s", "1">>, delta |-> -5, note |-> <<>>]
    /\ activeSessionId = <<"'", "s", "2">>
    /\ delta = 2
    /\ note = <<"h", "i">>

----------------------------------------------------------------------------
(* C36: once the operator has picked another ACTIVE homeroom, every          *)
(* Battle_Control fetch issued before the pick is dead; a dead fetch stays   *)
(* dead, its response changes neither the rows, the homeroom nor the         *)
(* session id, and a response is applied only for a fetch that is alive.     *)
C36_ChoiceNotClobbered ==
    /\ [][(last'.op = "chooseHomeroom")
          => \A r \in bcReqs' : r.seq <= bcSeq => ~r.alive]_vars
    /\ [][\A r \in bcReqs' : r.alive => (r \in bcReqs \/ r.seq > bcSeq)]_vars
    /\ [][(last'.op = "bcStale")
          => /\ [seq |-> last'.seq, alive |-> FALSE] \in bcReqs
             /\ UNCHANGED <<battleRows, activeHomeroom, activeSessionId>>]_vars
    /\ [][(last'.op = "bcApplied")
          => [seq |-> last'.seq, alive |-> TRUE] \in bcReqs]_vars

\* the operator has just picked homeroom B over A while a fetch issued before
\* the pick was in flight
C36_Witness ==
    /\ last.op = "chooseHomeroom"
    /\ last.from = <<"A">>
    /\ activeHomeroom = <<"B">>
    /\ \E r \in bcReqs : r.seq < bcSeq /\ ~r.alive
    /\ [seq |-> bcSeq, alive |-> TRUE] \in bcReqs

----------------------------------------------------------------------------
(* C37: the pending ledger changes only in a step of onSubmit and in the     *)
(* application of an HP poll's response. Applying a response only deletes    *)
(* entries, each of an id the response has a row for, whose value matches    *)
(* the expected one or whose entry is older than the TTL. A step of onSubmit *)
(* deletes the entry of the target whose write failed and records, at the    *)
(* present time, the entry of a target of the batch. Every other step        *)
(* (session polls, homeroom picks, selection toggles, guild filter, blur and *)
(* focus, the clock) leaves every entry as it is.                            *)
entryOf(p, id) == IF id \in DOMAIN p THEN {p[id]} ELSE {}

C37_LedgerFrame ==
    /\ [][pending' # pending => last'.op \in {"submit", "writeDone", "hpApplied"}]_vars
    /\ [][last'.op = "hpApplied"
          => \A id \in DOMAIN pending \cup DOMAIN pending' :
                entryOf(pending', id) # entryOf(pending, id)
                => /\ id \notin DOMAIN pending'
                   /\ \E i \in 1..Len(last'.parsed) :
                         /\ normId(last'.parsed[i].studentId) = id
                         /\ \/ now - pending[id].ts > PENDING_TTL_MS
                            \/ last'.parsed[i].currentHP = pending[id].expected]_vars
    /\ [][last'.op \in {"submit", "writeDone"}
          => \A id \in DOMAIN pending \cup DOMAIN pending' :
                entryOf(pending', id) # entryOf(pending, id)
                => \/ /\ id \notin DOMAIN pending'
                      /\ last'.op = "writeDone"
                      /\ ~last'.success
                      /\ id = last'.id
                   \/ /\ id \in DOMAIN pending'
                      /\ pending'[id].ts = now
                      /\ \E i \in 1..Len(last'.ids) : last'.ids[i] = id]_vars

\* the operator has just picked homeroom B, and the entry recorded for a
\* student of homeroom A is still in the ledger
C37_Witness ==
    /\ last.op = "chooseHomeroom"
    /\ last.from = <<"A">>
    /\ activeHomeroom = <<"B">>
    /\ <<"E", "1">> \in DOMAIN pending
    /\ guildFilter = "G1"

----------------------------------------------------------------------------
(* C38: the selection never holds two ids of one canonical form; a toggle in *)
(* single-select mode leaves exactly the toggled id; a toggle in             *)
(* multi-select mode flips the membership of the toggled id and leaves the   *)
(* other ids, so that two toggles of one id return to the same set; and      *)
(* after a step that runs the visibility filter (the guild filter, a pick of *)
(* another homeroom) the selection holds ids of visible tiles only.          *)
selectedSet(sel) == {sel[i] : i \in 1..Len(sel)}

====
